---- MODULE Spec2Model ----
(***************************************************************************)
(* Model of the email ingestion and categorisation pipeline of             *)
(* emal_sorting_api: the Repository (EmailDAO, CategoryDAO), the Mailbox   *)
(* Reconciler and Ingestion Orchestrator (EmailService, the background     *)
(* task of email_routes) and the Classifier (OpenAIService).               *)
(*                                                                         *)
(* The database tables are sets of rows.  The remote mailboxes are a fixed *)
(* population of messages whose label state changes.  One ingestion run is *)
(* a process whose steps are separated by its calls to the outside world.  *)
(***************************************************************************)
EXTENDS Integers, Sequences, FiniteSets, TLC

(***************************************************************************)
(* The universe: users, Google accounts, remote messages.                  *)
(***************************************************************************)
Users == {"uA", "uB"}

Subs == {"g1", "g2"}

\* Values of auth["google_token"]: a session credential, or none supplied.
NoToken == "none"

Tokens == {"tok", NoToken}

\* The refresh_token value that marks the primary account.
PrimarySentinel == "primary_account"

\* maxResults of the messages().list call of poll_gmail.
MaxResults == 2

\* The most categories the model lets the users create, all users together.
MaxCategories == 2

\* The greatest category_id a stored category has when create_category is
\* called on its own.
MaxCategoryId == 4

\* A remote message: the fields poll_gmail reads of it.
Message(g, id, thread, date, link) ==
    [google_sub |-> g, id |-> id, threadId |-> thread, date |-> date,
     unsubscribe_link |-> link]

\* Two mailboxes that each hold one message, under the same message id: ids
\* are only unique within one mailbox.
SharedIdMailboxes ==
    { Message("g1", "m1", "t1", 3, "url"),
      Message("g2", "m1", "t1", 2, "null") }

\* Two mailboxes that each hold one message, under different ids.
DistinctIdMailboxes ==
    { Message("g1", "m1", "t1", 3, "url"),
      Message("g2", "m2", "t2", 2, "null") }

MessageIds == {"m1", "m2"}

\* Summary texts the language model may write.
Summaries == {"s1", "s2"}

VARIABLES
    mailbox,            \* the messages the remote mailboxes hold
    labels,             \* remote label state of each message: <<sub, id>> -> label
    gmail_accounts,     \* table gmail_accounts
    raw_emails,         \* table raw_emails
    processed_emails,   \* table processed_emails
    categories,         \* table categories
    pc,                 \* position of the background run
    run_user,           \* user_id of the run
    provider_token,     \* google_token of the run
    accounts,           \* accounts_response.data still to be processed
    all_emails,         \* all_emails of poll_all_gmail_accounts
    emails,             \* the list process_emails_background iterates over
    run_categories,     \* categories loaded by the run
    processed_count,    \* processed_count of the run
    poll_log,           \* what happened to each account of the run, in order
    i,                  \* the entries of emails the loop has gone through
    ok_keys,            \* keys of the entries whose iteration ended without an exception
    failed_keys,        \* keys of the entries whose iteration ended in the except branch
    start_keys,         \* keys of the processed rows that existed when the run began
    conflicts,          \* an upsert of raw_emails has hit an existing row
    poll_raised,        \* poll_all_gmail_accounts raised
    ret,                \* the last Repository call made directly: its rows
    response,           \* the answer to the last start_email_collection request
    inflight            \* the handlers in progress, one for each worker: their local variables

tables == <<gmail_accounts, raw_emails, processed_emails, categories>>

remote == <<mailbox, labels>>

runvars == <<pc, run_user, provider_token, accounts, all_emails, emails,
             run_categories, processed_count, poll_log, i, ok_keys, failed_keys, start_keys,
             poll_raised>>

vars == <<mailbox, labels, gmail_accounts, raw_emails, processed_emails, categories,
          pc, run_user, provider_token, accounts, all_emails, emails,
          run_categories, processed_count, poll_log, i, ok_keys, failed_keys, start_keys,
          conflicts, poll_raised, ret, response, inflight>>

(***************************************************************************)
(* Rows and keys.                                                          *)
(***************************************************************************)
\* The conflict key of raw_emails and processed_emails.
Key(r) == <<r.user_id, r.gmail_message_id, r.thread_id, r.google_sub>>

Keys(rows) == {Key(r) : r \in rows}

RowsOf(u, rows) == {r \in rows : r.user_id = u}

\* What the run keeps of a raw row: the fields it reads later.
Entry(r) ==
    [user_id |-> r.user_id, gmail_message_id |-> r.gmail_message_id,
     thread_id |-> r.thread_id, google_sub |-> r.google_sub,
     received_at |-> r.received_at]

Range(s) == {s[k] : k \in DOMAIN s}

\* The orders in which a query ORDER BY received_at DESC may return rows.
OrderedDesc(S) ==
    { s \in [1..Cardinality(S) -> S] :
        \A a, b \in 1..Cardinality(S) :
            a < b => s[a] # s[b] /\ s[a].received_at >= s[b].received_at }

\* The orders in which a query without ORDER BY may return rows.
AnyOrder(S) ==
    { s \in [1..Cardinality(S) -> S] :
        \A a, b \in 1..Cardinality(S) : a < b => s[a] # s[b] }

(***************************************************************************)
(* Repository: EmailDAO and CategoryDAO.  Each operator takes the tables   *)
(* it reads, so that a handler can chain several calls in one step.        *)
(***************************************************************************)
\* insert_emails without conflict handling: every row is added.
InsertRawNoConflict(raw, rows) == raw \cup rows

\* insert_emails: upsert on (user_id, gmail_message_id, thread_id, google_sub).
UpsertRaw(raw, rows) ==
    {r \in raw : Key(r) \notin Keys(rows)} \cup rows

\* The rows poll_gmail builds from the listed messages and insert_emails
\* formats: archived is False in every row of the batch.
FormattedEmails(u, g, messages) ==
    { [user_id |-> u, gmail_message_id |-> m.id, thread_id |-> m.threadId,
       google_sub |-> g, received_at |-> m.date, archived |-> FALSE,
       unsubscribe_link |-> m.unsubscribe_link] : m \in messages }

\* get_unprocessed_emails without the filter: every raw row of the user.
UnprocessedNoFilter(u, raw, proc) == RowsOf(u, raw)

\* get_unprocessed_emails: the raw rows of the user whose gmail_message_id is
\* not the gmail_message_id of a processed row of the user.
Unprocessed(u, raw, proc) ==
    LET processed_ids == {p.gmail_message_id : p \in RowsOf(u, proc)}
    IN  {r \in RowsOf(u, raw) : r.gmail_message_id \notin processed_ids}

\* get_emails_by_ids
GetEmailsByIds(u, ids, raw) ==
    {r \in RowsOf(u, raw) : r.gmail_message_id \in ids}

\* mark_as_archived, on one table, for each id of ids.
MarkArchived(rows, u, ids) ==
    { IF r.user_id = u /\ r.gmail_message_id \in ids
        THEN [r EXCEPT !.archived = TRUE] ELSE r : r \in rows }

\* EmailDAO.delete_emails, on raw_emails.
DeleteRaw(raw, u, ids) == raw \ GetEmailsByIds(u, ids, raw)

\* delete_processed_emails left out: processed_emails stays as it is.
DeleteProcessedSkipped(proc, u, ids) == proc

\* EmailDAO.delete_processed_emails, on processed_emails.
DeleteProcessed(proc, u, ids) == proc \ GetEmailsByIds(u, ids, proc)

\* The row save_email_categories builds from the raw row it looked up.
ProcessedRow(u, email, result) ==
    [user_id |-> u, gmail_message_id |-> result.gmail_message_id,
     thread_id |-> email.thread_id, ai_summary |-> result.summary,
     category_id |-> result.category_id, unsubscribed |-> FALSE,
     received_at |-> email.received_at, archived |-> email.archived,
     google_sub |-> email.google_sub]

\* The upsert of save_email_categories, on the same conflict key.
UpsertProcessed(proc, row) ==
    {p \in proc : Key(p) # Key(row)} \cup {row}

\* create_category with the user filter left out of the query.
NextCategoryIdAllUsers(u, cats) ==
    IF cats = {} THEN 1
    ELSE (CHOOSE r \in cats : \A q \in cats : q.category_id <= r.category_id).category_id + 1

\* create_category: the category_id of the first row of the user by
\* category_id descending, plus one; 1 when the user has no row.
NextCategoryId(u, cats) ==
    IF RowsOf(u, cats) = {} THEN 1
    ELSE (CHOOSE r \in RowsOf(u, cats) :
            \A q \in RowsOf(u, cats) : q.category_id <= r.category_id).category_id + 1

\* The surrogate key the database gives the next row of categories: a serial,
\* greater than every id in use.
NextSerial(cats) ==
    IF cats = {} THEN 1
    ELSE (CHOOSE r \in cats : \A q \in cats : q.id <= r.id).id + 1

\* The row create_category inserts, as the database returns it.
NewCategory(u, cats) ==
    [id |-> NextSerial(cats), user_id |-> u,
     category_id |-> NextCategoryId(u, cats)]

(***************************************************************************)
(* The remote mailbox.                                                     *)
(***************************************************************************)
\* messages().list(maxResults=2): the most recent messages of the mailbox
\* that are not in the trash.
ListMessages(g) ==
    LET box == {m \in mailbox :
                  m.google_sub = g /\ labels[<<g, m.id>>] # "TRASH"}
    IN  {m \in box : Cardinality({n \in box : n.date > m.date}) < MaxResults}

\* messages().modify(removeLabelIds=[INBOX]) having succeeded for each pair of ok.
RemoveInbox(lab, ok) ==
    [k \in DOMAIN lab |-> IF k \in ok /\ lab[k] = "INBOX" THEN "ARCHIVED" ELSE lab[k]]

\* messages().trash having succeeded for each pair of ok.
Trash(lab, ok) ==
    [k \in DOMAIN lab |-> IF k \in ok THEN "TRASH" ELSE lab[k]]

(***************************************************************************)
(* The Classifier.                                                         *)
(***************************************************************************)
\* What eval(response) holds when the model answers as the prompt asks: the
\* prompt lists each category by its id, and the answer names one of them.
ModelResults(cats) ==
    { [category_id |-> c, summary |-> s] :
        c \in {cat.id : cat \in cats}, s \in Summaries }

(***************************************************************************)
(* all_emails.sort(key=received_at, reverse=True): a stable sort.          *)
(***************************************************************************)
RECURSIVE InsertDesc(_, _)
\* s with x put after the last element that is not older than x
InsertDesc(s, x) ==
    IF s = <<>> THEN <<x>>
    ELSE IF Head(s).received_at >= x.received_at
           THEN <<Head(s)>> \o InsertDesc(Tail(s), x)
           ELSE <<x>> \o s

\* The sort left out: the concatenation is returned as it is.
NoSort(s) == s

RECURSIVE SortDesc(_)
SortDesc(s) ==
    IF s = <<>> THEN <<>>
    ELSE InsertDesc(SortDesc(SubSeq(s, 1, Len(s) - 1)), s[Len(s)])

(***************************************************************************)
(* EmailService.extract_email_body.  A payload is a tree: has_data says    *)
(* that the node has "body" with "data" in it, has_parts that it has the   *)
(* key "parts".                                                            *)
(***************************************************************************)
\* The most parts the payload of a message has.
MaxParts == 3

\* The most parts a container inside the payload has.
MaxNestedParts == 1

\* The sequences over S of length at most n.
SeqsUpTo(S, n) == UNION { [1..k -> S] : k \in 0..n }

\* base64.urlsafe_b64decode(data).decode("utf-8")
Decode(data) ==
    CASE data = "aA" -> "h"
      [] data = "dA" -> "t"
      [] data = ""   -> ""

Leaf(mime, has_data, data) ==
    [empty |-> FALSE, mimeType |-> mime, has_data |-> has_data, data |-> data,
     has_parts |-> FALSE, parts |-> <<>>]

Container(parts) ==
    [empty |-> FALSE, mimeType |-> "multipart/alternative", has_data |-> FALSE,
     data |-> "", has_parts |-> TRUE, parts |-> parts]

\* The payload {}.
EmptyPayload ==
    [empty |-> TRUE, mimeType |-> "", has_data |-> FALSE, data |-> "",
     has_parts |-> FALSE, parts |-> <<>>]

\* An HTML leaf and a plain-text leaf with content, and an attachment.
ContentLeaves ==
    { Leaf("text/html", TRUE, "aA"), Leaf("text/plain", TRUE, "dA"),
      Leaf("application/pdf", FALSE, "") }

\* Those, an HTML leaf without data and a plain-text leaf whose data is empty.
Leaves ==
    ContentLeaves \cup { Leaf("text/html", FALSE, ""), Leaf("text/plain", TRUE, "") }

\* Containers of leaves, and containers that hold one such container.
NestedContainers ==
    { Container(parts) : parts \in SeqsUpTo(ContentLeaves, MaxNestedParts) }

WrappedContainers == { Container(<<c>>) : c \in NestedContainers }

Payloads ==
    {EmptyPayload} \cup Leaves \cup
    { Container(parts) :
        parts \in SeqsUpTo(Leaves \cup NestedContainers \cup WrappedContainers,
                           MaxParts) }

Fallback == "No readable content"

NoPart == [found |-> FALSE, data |-> ""]

RECURSIVE ExtractEmailBody(_)
RECURSIVE ScanParts(_, _, _, _)
\* The first pass over payload["parts"], from part k on, with the html_part
\* and text_part found so far, and what follows the loop.
ScanParts(parts, k, html_part, text_part) ==
    IF k > Len(parts)
      THEN IF html_part.found THEN Decode(html_part.data)
           ELSE IF text_part.found THEN Decode(text_part.data)
           ELSE Fallback
      ELSE LET part == parts[k] IN
           IF part.mimeType = "text/html" /\ part.has_data
             THEN ScanParts(parts, k + 1, [found |-> TRUE, data |-> part.data], text_part)
           ELSE IF part.mimeType = "text/plain" /\ part.has_data
             THEN ScanParts(parts, k + 1, html_part, [found |-> TRUE, data |-> part.data])
           ELSE IF part.has_parts
             THEN LET nested_body == ExtractEmailBody(part)
                  IN  IF nested_body # "" THEN nested_body
                      ELSE ScanParts(parts, k + 1, html_part, text_part)
           ELSE ScanParts(parts, k + 1, html_part, text_part)

ExtractEmailBody(payload) ==
    IF payload.empty THEN ""
    ELSE IF payload.has_data THEN Decode(payload.data)
    ELSE IF payload.has_parts THEN ScanParts(payload.parts, 1, NoPart, NoPart)
    ELSE Fallback

(***************************************************************************)
(* EmailService.extract_unsubscribe_link.  A header value and a body are   *)
(* sequences of whitespace-separated tokens; a token carries its text and  *)
(* what each regular expression of the function captures in it ("" when    *)
(* the expression does not match the token).                               *)
(***************************************************************************)
\* The most headers a message has.
MaxHeaders == 2

\* The most tokens a header value or a body has.
MaxTokens == 2

\* r'<(https?://[^>]+)>' and r'(https?://\S+)' applied to a token of a
\* header value: group(1) of each.
HeaderToken(text, bracketed, direct) ==
    [text |-> text, bracketed |-> bracketed, direct |-> direct]

HeaderTokens ==
    { HeaderToken("<https://h.test/a>", "https://h.test/a", "https://h.test/a>"),
      HeaderToken("https://h.test/b", "", "https://h.test/b"),
      HeaderToken("<mailto:u@h.test>", "", ""),
      HeaderToken("word", "", "") }

HeaderValues == SeqsUpTo(HeaderTokens, MaxTokens)

HeaderNames == {"List-Unsubscribe", "list-unsubscribe", "Subject"}

\* str.lower() on a header name.
Lower(name) ==
    CASE name = "List-Unsubscribe" -> "list-unsubscribe"
      [] name = "Subject" -> "subject"
      [] OTHER -> name

HeaderLists ==
    SeqsUpTo([name : HeaderNames, value : HeaderValues], MaxHeaders)

\* The three unsubscribe_patterns applied to a token of the body: whether
\* each matches the token (the match is then the whole token).
BodyToken(text, p1, p2, p3) ==
    [text |-> text, unsubscribe |-> p1, opt_out |-> p2, click |-> p3]

BodyTokens ==
    { BodyToken("https://x.test/unsubscribe?id=1", TRUE, FALSE, FALSE),
      BodyToken("https://x.test/opt-out", FALSE, TRUE, FALSE),
      BodyToken("https://e.click.x.test/optout", FALSE, TRUE, TRUE),
      BodyToken("https://x.test/home", FALSE, FALSE, FALSE),
      BodyToken("unsubscribe", FALSE, FALSE, FALSE) }

Bodies == SeqsUpTo(BodyTokens, MaxTokens)

Messages == [headers : HeaderLists, body : Bodies]

NoLink == "None"

\* h['name'].lower() == 'list-unsubscribe', and the same without lower().
IsListUnsubscribeExact(name) == name = "list-unsubscribe"

IsListUnsubscribe(name) == Lower(name) = "list-unsubscribe"

\* next((h['value'] for h in headers if ...), None): the position of the
\* header whose value is taken, 0 for None.
ListUnsubscribe(headers) ==
    LET hits == {k \in DOMAIN headers : IsListUnsubscribe(headers[k].name)}
    IN  IF hits = {} THEN 0 ELSE CHOOSE k \in hits : \A j \in hits : k <= j

\* re.search over a sequence of tokens finds the leftmost token in which
\* the expression matches: the least of the positions hits, 0 for no match.
Leftmost(hits) ==
    IF hits = {} THEN 0 ELSE CHOOSE k \in hits : \A j \in hits : k <= j

\* re.search(r'<(https?://[^>]+)>', list_unsubscribe)
SearchBracketed(value) ==
    Leftmost({k \in DOMAIN value : value[k].bracketed # ""})

\* re.search(r'(https?://\S+)', list_unsubscribe)
SearchDirect(value) ==
    Leftmost({k \in DOMAIN value : value[k].direct # ""})

\* re.search(pattern, body, re.IGNORECASE) for the three patterns in turn.
SearchPattern1(body) == Leftmost({k \in DOMAIN body : body[k].unsubscribe})

SearchPattern2(body) == Leftmost({k \in DOMAIN body : body[k].opt_out})

SearchPattern3(body) == Leftmost({k \in DOMAIN body : body[k].click})

\* The loop over unsubscribe_patterns and the final return None.
BodyLink(body) ==
    IF SearchPattern1(body) # 0 THEN body[SearchPattern1(body)].text
    ELSE IF SearchPattern2(body) # 0 THEN body[SearchPattern2(body)].text
    ELSE IF SearchPattern3(body) # 0 THEN body[SearchPattern3(body)].text
    ELSE NoLink

ExtractUnsubscribeLink(headers, body) ==
    LET k == ListUnsubscribe(headers)
        list_unsubscribe == IF k = 0 THEN <<>> ELSE headers[k].value
    IN  IF list_unsubscribe # <<>> /\ SearchBracketed(list_unsubscribe) # 0
          THEN list_unsubscribe[SearchBracketed(list_unsubscribe)].bracketed
        ELSE IF list_unsubscribe # <<>> /\ SearchDirect(list_unsubscribe) # 0
          THEN list_unsubscribe[SearchDirect(list_unsubscribe)].direct
        ELSE BodyLink(body)

(***************************************************************************)
(* Initial state: the two Google accounts of user uA are linked (g1 is the *)
(* primary account, stored at login; g2 was linked through OAuth), nothing *)
(* has been ingested and no category exists.                               *)
(***************************************************************************)
LinkedAtStart ==
    { [user_id |-> "uA", google_sub |-> "g1", email |-> "e1",
       access_token |-> "tok", refresh_token |-> PrimarySentinel],
      [user_id |-> "uA", google_sub |-> "g2", email |-> "e2",
       access_token |-> "at2", refresh_token |-> "rt2"] }

NoCall == [op |-> "none", user |-> "none", rows |-> {}]

\* The workers that serve requests: each runs one handler at a time, and
\* all of them work on the same tables and the same remote mailboxes.
Workers == {"w1", "w2"}

\* The local variables of a handler in progress: the operation, its user
\* and ids, the remote calls still to make and those made, the rows it has
\* read, the number it has computed, and how it ended.
Locals(op, u, ids, pending, issued, rows, n, outcome) ==
    [op |-> op, user |-> u, ids |-> ids, pending |-> pending,
     issued |-> issued, rows |-> rows, n |-> n, outcome |-> outcome]

NoHandler == Locals("none", "none", {}, <<>>, <<>>, {}, 0, "none")

NoneInFlight == [w \in Workers |-> NoHandler]

NoResponse == [user |-> "none", body |-> "none"]

IdleRun ==
    /\ pc = "idle"
    /\ run_user = "none"
    /\ provider_token = NoToken
    /\ accounts = <<>>
    /\ all_emails = <<>>
    /\ emails = <<>>
    /\ run_categories = {}
    /\ processed_count = 0
    /\ poll_log = <<>>
    /\ i = 0
    /\ ok_keys = {}
    /\ failed_keys = {}
    /\ start_keys = {}
    /\ poll_raised = FALSE

Init ==
    /\ gmail_accounts = LinkedAtStart
    /\ raw_emails = {}
    /\ processed_emails = {}
    /\ categories = {}
    /\ mailbox \in {SharedIdMailboxes, DistinctIdMailboxes}
    /\ labels = [k \in {<<m.google_sub, m.id>> : m \in mailbox} |-> "INBOX"]
    /\ IdleRun
    /\ conflicts = FALSE
    /\ ret = NoCall
    /\ response = NoResponse
    /\ inflight = NoneInFlight

(***************************************************************************)
(* The ingestion run: start_email_collection, process_emails_background,   *)
(* poll_all_gmail_accounts, poll_gmail.                                    *)
(***************************************************************************)
\* start_email_collection answering 500 whatever the request holds.
StartResponseAlwaysError(has_sub) == "error"

\* What start_email_collection answers: the acknowledgment when the user of
\* the request has a Google sub id (an identity of provider google, or
\* provider_id in the metadata), else the HTTPException(400), which the
\* handler's own except turns into a 500.
StartResponse(has_sub) == IF has_sub THEN "started" ELSE "error"

\* start_email_collection for a user with a Google sub id: the background
\* task is added and the acknowledgment returned.
StartEmailCollection(u, tok) ==
    /\ pc \in {"idle", "done"}
    /\ pc' = "queued"
    /\ run_user' = u
    /\ provider_token' = tok
    /\ accounts' = <<>>
    /\ all_emails' = <<>>
    /\ emails' = <<>>
    /\ run_categories' = {}
    /\ processed_count' = 0
    /\ poll_log' = <<>>
    /\ i' = 0
    /\ ok_keys' = {}
    /\ failed_keys' = {}
    /\ start_keys' = {}
    /\ poll_raised' = FALSE
    /\ response' = [user |-> u, body |-> StartResponse(TRUE)]
    /\ inflight' = inflight
    /\ UNCHANGED <<tables, remote, conflicts, ret>>

\* process_emails_background begins: poll_all_gmail_accounts lists the
\* accounts of the user.
PollAllStart ==
    /\ pc = "queued"
    /\ \E order \in AnyOrder(RowsOf(run_user, gmail_accounts)) :
          accounts' = order
    /\ pc' = "polling"
    /\ start_keys' = Keys(RowsOf(run_user, processed_emails))
    /\ UNCHANGED <<tables, remote, conflicts, response, inflight, ret, run_user, provider_token,
                   all_emails, emails, run_categories, processed_count,
                   poll_log, i, ok_keys, failed_keys, poll_raised>>

\* No credential: the account is skipped before a service is built.
NoTokens == [access_token |-> "None", refresh_token |-> "None"]

\* As ResolveTokens, without the branch for the primary account: the stored
\* pair is used for every account.
ResolveStoredTokens(account, tok) ==
    [access_token |-> account.access_token,
     refresh_token |-> account.refresh_token]

\* The access_token and refresh_token poll_all_gmail_accounts passes to
\* _build_gmail_service for an account.
ResolveTokens(account, tok) ==
    IF account.refresh_token = PrimarySentinel
      THEN IF tok = NoToken THEN NoTokens
           ELSE [access_token |-> tok, refresh_token |-> "None"]
      ELSE [access_token |-> account.access_token,
            refresh_token |-> account.refresh_token]

\* The credential poll_all_gmail_accounts resolves for an account.
Credential(account, tok) ==
    LET t == ResolveTokens(account, tok)
    IN  IF t = NoTokens THEN "none"
        ELSE IF t.refresh_token = "None" THEN "session"
        ELSE "stored"

LogEntry(account, result) ==
    [google_sub |-> account.google_sub, result |-> result,
     credential |-> Credential(account, provider_token),
     tokens |-> ResolveTokens(account, provider_token)]

\* As AccountError, if the exception left the loop instead: the call raises.
AccountErrorRaises ==
    /\ pc' = "done"
    /\ poll_raised' = TRUE
    /\ accounts' = accounts
    /\ poll_log' = Append(poll_log, LogEntry(Head(accounts), "failed"))

\* The except branch of the per-account try: log and continue.
AccountError ==
    /\ pc' = pc
    /\ poll_raised' = poll_raised
    /\ accounts' = Tail(accounts)
    /\ poll_log' = Append(poll_log, LogEntry(Head(accounts), "failed"))

\* The primary account when no session credential was supplied: continue.
SkipAccount ==
    /\ pc = "polling" /\ accounts # <<>>
    /\ Credential(Head(accounts), provider_token) = "none"
    /\ accounts' = Tail(accounts)
    /\ poll_log' = Append(poll_log, LogEntry(Head(accounts), "skipped"))
    /\ UNCHANGED <<tables, remote, conflicts, response, inflight, ret, pc, run_user, provider_token,
                   all_emails, emails, run_categories, processed_count,
                   i, ok_keys, failed_keys, start_keys, poll_raised>>

\* _build_gmail_service, messages().list, messages().get or insert_emails
\* raises: nothing has been stored for the account.
PollAccountFails ==
    /\ pc = "polling" /\ accounts # <<>>
    /\ Credential(Head(accounts), provider_token) # "none"
    /\ \E stage \in {"build", "list", "get", "upsert"} : AccountError
    /\ UNCHANGED <<tables, remote, conflicts, response, inflight, ret, run_user, provider_token,
                   all_emails, emails, run_categories, processed_count,
                   i, ok_keys, failed_keys, start_keys>>

\* poll_gmail for the account: the batch is upserted, each message of the
\* batch is archived remotely (ok: the messages for which modify succeeded)
\* and then marked archived, and the unprocessed rows of the user are
\* returned; delta_fails: get_unprocessed_emails raises instead.
PollGmail(delta_fails) ==
    /\ pc = "polling" /\ accounts # <<>>
    /\ Credential(Head(accounts), provider_token) # "none"
    /\ LET account == Head(accounts)
           g == account.google_sub
           emails_to_store == FormattedEmails(run_user, g, ListMessages(g))
           stored == IF emails_to_store = {} THEN raw_emails
                     ELSE UpsertRaw(raw_emails, emails_to_store)
       IN  \E ok \in SUBSET {e.gmail_message_id : e \in emails_to_store} :
             /\ raw_emails' = MarkArchived(stored, run_user, ok)
             /\ processed_emails' = MarkArchived(processed_emails, run_user, ok)
             /\ labels' = RemoveInbox(labels, {<<g, id>> : id \in ok})
             /\ conflicts' = (conflicts \/
                              Keys(emails_to_store) \cap Keys(raw_emails) # {})
             /\ IF delta_fails
                  THEN AccountError /\ all_emails' = all_emails
                  ELSE /\ \E returned \in
                              OrderedDesc(Unprocessed(run_user, raw_emails',
                                                      processed_emails')) :
                            all_emails' = all_emails \o
                                [k \in DOMAIN returned |-> Entry(returned[k])]
                       /\ accounts' = Tail(accounts)
                       /\ poll_log' = Append(poll_log, LogEntry(account, "polled"))
                       /\ UNCHANGED <<pc, poll_raised>>
    /\ UNCHANGED <<mailbox, gmail_accounts, categories, ret, response, inflight, run_user, provider_token,
                   emails, run_categories, processed_count, i, ok_keys, failed_keys, start_keys>>

\* As PollAllReturn, if the sort and return were inside the loop over the
\* accounts: taken whether or not accounts are left to poll.
PollAllReturnEarly ==
    /\ pc = "polling"
    /\ all_emails' = SortDesc(all_emails)
    /\ emails' = all_emails'
    /\ run_categories' = RowsOf(run_user, categories)
    /\ pc' = IF run_categories' = {} THEN "done" ELSE "classifying"
    /\ UNCHANGED <<tables, remote, conflicts, response, inflight, ret, run_user, provider_token,
                   accounts, processed_count, poll_log, i, ok_keys, failed_keys,
                   start_keys, poll_raised>>

\* poll_all_gmail_accounts sorts and returns; process_emails_background
\* loads the categories of the user and returns when there are none.
PollAllReturn ==
    /\ pc = "polling" /\ accounts = <<>>
    /\ all_emails' = SortDesc(all_emails)
    /\ emails' = all_emails'
    /\ run_categories' = RowsOf(run_user, categories)
    /\ pc' = IF run_categories' = {} THEN "done" ELSE "classifying"
    /\ UNCHANGED <<tables, remote, conflicts, response, inflight, ret, run_user, provider_token,
                   accounts, processed_count, poll_log, i, ok_keys, failed_keys,
                   start_keys, poll_raised>>

\* One iteration of the loop that ends in its except branch: categorize_email
\* raises (the model call fails, or eval of its response does), or it returns
\* and save_email_categories raises (the result lacks a key, no raw row has
\* the message id, or the upsert fails).  Nothing is written.
IterationFails ==
    /\ pc = "classifying" /\ i < Len(emails)
    /\ i' = i + 1
    /\ failed_keys' = failed_keys \cup {Key(emails[i + 1])}
    /\ UNCHANGED <<tables, remote, conflicts, response, inflight, ret, pc, run_user, provider_token,
                   accounts, all_emails, emails, run_categories,
                   processed_count, poll_log, ok_keys, start_keys, poll_raised>>

\* One iteration of the loop: categorize_email returns a result, to which it
\* attaches the message id, and save_email_categories stores it with the
\* fields of the first raw row of the user that has the message id.
ClassifyAndSave ==
    /\ pc = "classifying" /\ i < Len(emails)
    /\ LET email == emails[i + 1]
       IN  \E answer \in ModelResults(run_categories) :
           \E row \in GetEmailsByIds(run_user, {email.gmail_message_id}, raw_emails) :
             LET result == [category_id |-> answer.category_id,
                            summary |-> answer.summary,
                            gmail_message_id |-> email.gmail_message_id]
             IN  processed_emails' =
                   UpsertProcessed(processed_emails,
                                   ProcessedRow(run_user, row, result))
    /\ processed_count' = processed_count + 1
    /\ i' = i + 1
    /\ ok_keys' = ok_keys \cup {Key(emails[i + 1])}
    /\ UNCHANGED <<gmail_accounts, raw_emails, categories, remote, conflicts, response, inflight,
                   ret, pc, run_user, provider_token, accounts, all_emails,
                   emails, run_categories, poll_log, failed_keys, start_keys,
                   poll_raised>>

\* The loop has ended: the processed count is reported and the task returns.
RunDone ==
    /\ pc = "classifying" /\ i = Len(emails)
    /\ pc' = "done"
    /\ UNCHANGED <<tables, remote, conflicts, response, inflight, ret, run_user, provider_token,
                   accounts, all_emails, emails, run_categories,
                   processed_count, poll_log, i, ok_keys, failed_keys, start_keys, poll_raised>>

(***************************************************************************)
(* Handlers that run beside the ingestion run.                             *)
(***************************************************************************)
\* A request handler runs from its start to its end without another handler
\* in between: every Repository, Gmail and OpenAI call is a blocking call on
\* the one event loop main.py starts.  Another request is served before the
\* run, between the response of start_email_collection and the background
\* task, or after the run.
BetweenHandlers == pc \in {"idle", "queued", "done"}

\* CategoryDAO.create_category
CreateCategory(u) ==
    /\ BetweenHandlers
    /\ Cardinality(categories) < MaxCategories
    /\ categories' = categories \cup {NewCategory(u, categories)}
    /\ UNCHANGED <<gmail_accounts, raw_emails, processed_emails, remote,
                   runvars, conflicts, response, inflight, ret>>

\* The pairs <<google_sub, id>> archive_emails calls messages().modify for:
\* found maps each id that has a raw row to the first raw row found for it.
ArchiveCalls(u, found, tok) ==
    { <<found[id].google_sub, id>> : id \in
        { d \in DOMAIN found :
            \E a \in RowsOf(u, gmail_accounts) :
                /\ a.google_sub = found[d].google_sub
                /\ Credential(a, tok) # "none" } }

\* EmailService.archive_emails: the remote calls, each of which may fail,
\* then mark_as_archived for every id of the request.
ArchiveEmails(u, ids, tok) ==
    /\ BetweenHandlers
    /\ LET known == {id \in ids : GetEmailsByIds(u, {id}, raw_emails) # {}}
       IN  \E found \in [known -> RowsOf(u, raw_emails)] :
             /\ \A id \in known : found[id].gmail_message_id = id
             /\ \E ok \in SUBSET ArchiveCalls(u, found, tok) :
                   labels' = RemoveInbox(labels, ok)
    /\ raw_emails' = MarkArchived(raw_emails, u, ids)
    /\ processed_emails' = MarkArchived(processed_emails, u, ids)
    /\ UNCHANGED <<mailbox, gmail_accounts, categories, runvars, conflicts, response, inflight, ret>>

Next ==
    \/ \E u \in Users, tok \in Tokens : StartEmailCollection(u, tok)
    \/ PollAllStart
    \/ SkipAccount
    \/ PollAccountFails
    \/ \E delta_fails \in BOOLEAN : PollGmail(delta_fails)
    \/ PollAllReturn
    \/ IterationFails
    \/ ClassifyAndSave
    \/ RunDone
    \/ \E u \in Users : CreateCategory(u)

Spec == Init /\ [][Next]_vars

(***************************************************************************)
(* Archiving: the polls of a run and archive_emails, over two mailboxes    *)
(* whose message ids differ.                                               *)
(***************************************************************************)
InitArchive ==
    /\ gmail_accounts = LinkedAtStart
    /\ raw_emails = {}
    /\ processed_emails = {}
    /\ categories = {}
    /\ mailbox = DistinctIdMailboxes
    /\ labels = [k \in {<<m.google_sub, m.id>> : m \in mailbox} |-> "INBOX"]
    /\ IdleRun
    /\ conflicts = FALSE
    /\ ret = NoCall
    /\ response = NoResponse
    /\ inflight = NoneInFlight

NextArchive ==
    \/ \E u \in Users, tok \in Tokens : StartEmailCollection(u, tok)
    \/ PollAllStart
    \/ SkipAccount
    \/ PollAccountFails
    \/ \E delta_fails \in BOOLEAN : PollGmail(delta_fails)
    \/ PollAllReturn
    \/ \E u \in Users, ids \in SUBSET MessageIds, tok \in Tokens :
          ArchiveEmails(u, ids, tok)

SpecArchive == InitArchive /\ [][NextArchive]_vars

(***************************************************************************)
(* Triggering: the ingestion run and requests of users without a Google    *)
(* sub id.                                                                 *)
(***************************************************************************)
\* start_email_collection for a user without a Google sub id: no task is
\* added.
StartEmailCollectionNoSub(u) ==
    /\ pc \in {"idle", "done"}
    /\ response' = [user |-> u, body |-> StartResponse(FALSE)]
    /\ inflight' = inflight
    /\ UNCHANGED <<tables, remote, runvars, conflicts, ret>>

\* As Init, after user uA has created a category.
InitTrigger ==
    /\ gmail_accounts = LinkedAtStart
    /\ raw_emails = {}
    /\ processed_emails = {}
    /\ categories = {NewCategory("uA", {})}
    /\ mailbox \in {SharedIdMailboxes, DistinctIdMailboxes}
    /\ labels = [k \in {<<m.google_sub, m.id>> : m \in mailbox} |-> "INBOX"]
    /\ IdleRun
    /\ conflicts = FALSE
    /\ ret = NoCall
    /\ response = NoResponse
    /\ inflight = NoneInFlight

NextTrigger ==
    \/ \E u \in Users, tok \in Tokens : StartEmailCollection(u, tok)
    \/ \E u \in Users : StartEmailCollectionNoSub(u)
    \/ PollAllStart
    \/ SkipAccount
    \/ PollAccountFails
    \/ \E delta_fails \in BOOLEAN : PollGmail(delta_fails)
    \/ PollAllReturn
    \/ IterationFails
    \/ ClassifyAndSave
    \/ RunDone

SpecTrigger == InitTrigger /\ [][NextTrigger]_vars

(***************************************************************************)
(* Deleting: the ingestion run and, between handlers, delete_emails.       *)
(***************************************************************************)
\* EmailService.delete_emails: the remote trash calls, each of which may
\* fail, then EmailDAO.delete_emails, which raises when it deleted no row,
\* then EmailDAO.delete_processed_emails.  ret keeps the processed rows the
\* call deleted.
DeleteEmails(u, ids, tok) ==
    /\ BetweenHandlers
    /\ LET known == {id \in ids : GetEmailsByIds(u, {id}, raw_emails) # {}}
       IN  \E found \in [known -> RowsOf(u, raw_emails)] :
             /\ \A id \in known : found[id].gmail_message_id = id
             /\ \E ok \in SUBSET ArchiveCalls(u, found, tok) :
                   labels' = Trash(labels, ok)
    /\ raw_emails' = DeleteRaw(raw_emails, u, ids)
    /\ processed_emails' =
          IF raw_emails' = raw_emails THEN processed_emails
          ELSE DeleteProcessed(processed_emails, u, ids)
    /\ ret' = [op |-> "delete_emails", user |-> u,
               rows |-> processed_emails \ processed_emails']
    /\ UNCHANGED <<mailbox, gmail_accounts, categories, runvars, conflicts, response, inflight>>

\* As Init, after user uA has created a category, with the two mailboxes
\* that share a message id.
InitDelete ==
    /\ gmail_accounts = LinkedAtStart
    /\ raw_emails = {}
    /\ processed_emails = {}
    /\ categories = {NewCategory("uA", {})}
    /\ mailbox = SharedIdMailboxes
    /\ labels = [k \in {<<m.google_sub, m.id>> : m \in mailbox} |-> "INBOX"]
    /\ IdleRun
    /\ conflicts = FALSE
    /\ ret = NoCall
    /\ response = NoResponse
    /\ inflight = NoneInFlight

NextDelete ==
    \/ \E u \in Users, tok \in Tokens : StartEmailCollection(u, tok)
    \/ PollAllStart
    \/ SkipAccount
    \/ PollAccountFails
    \/ \E delta_fails \in BOOLEAN : PollGmail(delta_fails)
    \/ PollAllReturn
    \/ IterationFails
    \/ ClassifyAndSave
    \/ RunDone
    \/ \E u \in Users, ids \in SUBSET MessageIds, tok \in Tokens :
          DeleteEmails(u, ids, tok)

SpecDelete == InitDelete /\ [][NextDelete]_vars

(***************************************************************************)
(* The Repository on its own: one call of one operation, made for one user *)
(* on tables that hold rows of two users.                                  *)
(***************************************************************************)
\* Accounts: those of uA, and the second Google account linked by uB too.
RepoAccounts ==
    LinkedAtStart \cup
    { [user_id |-> "uB", google_sub |-> "g2", email |-> "e2",
       access_token |-> "at3", refresh_token |-> "rt3"] }

\* Raw rows the polls of these accounts can have stored.
RepoRawRows ==
    UNION { FormattedEmails(a.user_id, a.google_sub,
                            {m \in SharedIdMailboxes : m.google_sub = a.google_sub})
            : a \in RepoAccounts }

\* The processed row a run can have stored for a raw row.
RepoProcessedRow(r) ==
    ProcessedRow(r.user_id, r,
                 [gmail_message_id |-> r.gmail_message_id,
                  category_id |-> 1, summary |-> "s1"])

\* The categories table in which uA has the category ids SA and uB the
\* category ids SB; every row has its own surrogate id.
RepoCategories(SA, SB) ==
    { [id |-> k, user_id |-> "uA", category_id |-> k] : k \in SA } \cup
    { [id |-> MaxCategoryId + k, user_id |-> "uB", category_id |-> k] : k \in SB }

InitRepo ==
    /\ gmail_accounts = RepoAccounts
    /\ raw_emails \in SUBSET RepoRawRows
    /\ processed_emails \in SUBSET {RepoProcessedRow(r) : r \in raw_emails}
    /\ \E SA \in SUBSET (1..MaxCategoryId), SB \in SUBSET (1..MaxCategoryId) :
          categories = RepoCategories(SA, SB)
    /\ mailbox = SharedIdMailboxes
    /\ labels = [k \in {<<m.google_sub, m.id>> : m \in mailbox} |-> "INBOX"]
    /\ IdleRun
    /\ conflicts = FALSE
    /\ ret = NoCall
    /\ response = NoResponse
    /\ inflight = NoneInFlight

\* One call: what it returns and what it leaves in the three tables.
Call(op, u, rows, raw, proc, cats) ==
    /\ ret = NoCall
    /\ ret' = [op |-> op, user |-> u, rows |-> rows]
    /\ raw_emails' = raw
    /\ processed_emails' = proc
    /\ categories' = cats
    /\ UNCHANGED <<gmail_accounts, remote, runvars, conflicts, response, inflight>>

\* insert_emails: returns the rows of the upsert.
CallInsertEmails(u, g, messages) ==
    /\ messages # {}
    /\ LET rows == FormattedEmails(u, g, messages)
       IN  Call("insert_emails", u, rows, UpsertRaw(raw_emails, rows),
                processed_emails, categories)

\* get_unprocessed_emails
CallGetUnprocessedEmails(u) ==
    Call("get_unprocessed_emails", u,
         Unprocessed(u, raw_emails, processed_emails),
         raw_emails, processed_emails, categories)

\* get_emails_by_ids
CallGetEmailsByIds(u, ids) ==
    Call("get_emails_by_ids", u, GetEmailsByIds(u, ids, raw_emails),
         raw_emails, processed_emails, categories)

\* get_email_by_id: the first raw row found for the id, with ai_summary and
\* unsubscribed of the first processed row found for the id, or None.  (The
\* joined category name and description are left out: the model keeps no
\* category names.)
EmailById(u, id) ==
    LET found == GetEmailsByIds(u, {id}, raw_emails)
        done  == {p \in RowsOf(u, processed_emails) : p.gmail_message_id = id}
        with  == IF done = {}
                   THEN {[ai_summary |-> "None", unsubscribed |-> "None"]}
                   ELSE {[ai_summary |-> p.ai_summary,
                          unsubscribed |-> p.unsubscribed] : p \in done}
    IN  { [user_id |-> r.user_id, gmail_message_id |-> r.gmail_message_id,
           thread_id |-> r.thread_id, google_sub |-> r.google_sub,
           received_at |-> r.received_at, archived |-> r.archived,
           unsubscribe_link |-> r.unsubscribe_link,
           ai_summary |-> w.ai_summary, unsubscribed |-> w.unsubscribed]
          : r \in found, w \in with }

CallGetEmailById(u, id) ==
    \/ /\ EmailById(u, id) = {}
       /\ Call("get_email_by_id", u, {}, raw_emails, processed_emails, categories)
    \/ \E e \in EmailById(u, id) :
          Call("get_email_by_id", u, {e}, raw_emails, processed_emails, categories)

\* delete_emails
CallDeleteEmails(u, ids) ==
    Call("delete_emails", u, {},
         DeleteRaw(raw_emails, u, ids),
         processed_emails, categories)

\* delete_processed_emails
CallDeleteProcessedEmails(u, ids) ==
    Call("delete_processed_emails", u, {}, raw_emails,
         DeleteProcessed(processed_emails, u, ids),
         categories)

\* mark_as_archived
CallMarkAsArchived(u, id) ==
    Call("mark_as_archived", u, {},
         MarkArchived(raw_emails, u, {id}),
         MarkArchived(processed_emails, u, {id}), categories)

\* mark_as_unsubscribed
CallMarkAsUnsubscribed(u, id) ==
    Call("mark_as_unsubscribed", u, {}, raw_emails,
         { IF p.user_id = u /\ p.gmail_message_id = id
             THEN [p EXCEPT !.unsubscribed = TRUE] ELSE p
           : p \in processed_emails },
         categories)

\* save_email_categories: returns the row of the upsert; raises, with the
\* tables as they were, when no raw row has the id.
CallSaveEmailCategories(u, id, answer) ==
    \E email \in GetEmailsByIds(u, {id}, raw_emails) :
        LET row == ProcessedRow(u, email,
                     [gmail_message_id |-> id, category_id |-> answer.category_id,
                      summary |-> answer.summary])
        IN  Call("save_email_categories", u, {row}, raw_emails,
                 UpsertProcessed(processed_emails, row), categories)

\* get_all_categories
CallGetAllCategories(u) ==
    Call("get_all_categories", u, RowsOf(u, categories),
         raw_emails, processed_emails, categories)

\* get_gmail_account
CallGetGmailAccount(u, g) ==
    Call("get_gmail_account", u,
         {a \in RowsOf(u, gmail_accounts) : a.google_sub = g},
         raw_emails, processed_emails, categories)

\* The tables a query handed to execute_raw_sql can read.
SqlTables == {"raw_emails", "processed_emails", "categories", "gmail_accounts"}

\* The rows of SELECT * FROM table.
SelectAll(table) ==
    CASE table = "raw_emails"       -> raw_emails
      [] table = "processed_emails" -> processed_emails
      [] table = "categories"       -> categories
      [] table = "gmail_accounts"   -> gmail_accounts

\* execute_raw_sql, and execute_raw_sql_with_model and the predefined
\* queries above it: the query goes to the database as it is.  No user id
\* is a parameter of the call; u is the user whose request makes it.
CallExecuteRawSql(u, table) ==
    Call("execute_raw_sql", u, SelectAll(table),
         raw_emails, processed_emails, categories)

\* CategoryDAO.create_category: returns the inserted row.
CallCreateCategory(u) ==
    LET new == NewCategory(u, categories)
    IN  Call("create_category", u, {new}, raw_emails, processed_emails,
             categories \cup {new})

NextRepo ==
    \/ \E u \in Users, g \in Subs :
         \E messages \in SUBSET {m \in mailbox : m.google_sub = g} :
            CallInsertEmails(u, g, messages)
    \/ \E u \in Users : CallGetUnprocessedEmails(u)
    \/ \E u \in Users, ids \in SUBSET MessageIds : CallGetEmailsByIds(u, ids)
    \/ \E u \in Users, id \in MessageIds : CallGetEmailById(u, id)
    \/ \E u \in Users, ids \in SUBSET MessageIds : CallDeleteEmails(u, ids)
    \/ \E u \in Users, ids \in SUBSET MessageIds : CallDeleteProcessedEmails(u, ids)
    \/ \E u \in Users, id \in MessageIds : CallMarkAsArchived(u, id)
    \/ \E u \in Users, id \in MessageIds : CallMarkAsUnsubscribed(u, id)
    \/ \E u \in Users, id \in MessageIds :
         \E answer \in ModelResults(RowsOf(u, categories)) :
            CallSaveEmailCategories(u, id, answer)
    \/ \E u \in Users : CallGetAllCategories(u)
    \/ \E u \in Users, g \in Subs : CallGetGmailAccount(u, g)
    \/ \E u \in Users, table \in SqlTables : CallExecuteRawSql(u, table)
    \/ \E u \in Users : CallCreateCategory(u)

SpecRepo == InitRepo /\ [][NextRepo]_vars

(***************************************************************************)
(* The run on its own, with the failures of its two table reads, and the   *)
(* scheduling of the background task: once queued the task is run, and     *)
(* each of its steps is taken, since every call it makes returns or raises.*)
(***************************************************************************)
\* The select on gmail_accounts raises: poll_all_gmail_accounts raises, and
\* the except branch of process_emails_background logs and returns.
ListAccountsFails ==
    /\ pc = "queued"
    /\ pc' = "done"
    /\ poll_raised' = TRUE
    /\ UNCHANGED <<tables, remote, conflicts, response, inflight, ret, run_user,
                   provider_token, accounts, all_emails, emails, run_categories,
                   processed_count, poll_log, i, ok_keys, failed_keys, start_keys>>

\* poll_all_gmail_accounts sorts and returns, and get_all_categories
\* raises: the except branch of process_emails_background logs and returns.
GetAllCategoriesFails ==
    /\ pc = "polling" /\ accounts = <<>>
    /\ all_emails' = SortDesc(all_emails)
    /\ emails' = all_emails'
    /\ pc' = "done"
    /\ UNCHANGED <<tables, remote, conflicts, response, inflight, ret, run_user,
                   provider_token, accounts, run_categories, processed_count,
                   poll_log, i, ok_keys, failed_keys, start_keys, poll_raised>>

\* A step of the background task.
RunStep ==
    \/ PollAllStart
    \/ ListAccountsFails
    \/ SkipAccount
    \/ PollAccountFails
    \/ \E delta_fails \in BOOLEAN : PollGmail(delta_fails)
    \/ PollAllReturn
    \/ GetAllCategoriesFails
    \/ IterationFails
    \/ ClassifyAndSave
    \/ RunDone

NextRun ==
    \/ \E u \in Users, tok \in Tokens : StartEmailCollection(u, tok)
    \/ RunStep

SpecRun == InitTrigger /\ [][NextRun]_vars /\ WF_vars(RunStep)

(***************************************************************************)
(* Storing accounts: the route store_primary_account with                  *)
(* ensure_primary_account_stored, and the OAuth link_callback.  The table  *)
(* gmail_accounts has the unique constraint on (user_id, google_sub) that  *)
(* the upsert of link_callback names in on_conflict.                       *)
(***************************************************************************)
\* Display addresses: the address of a Google account can change.
Emails == {"e1", "e2"}

\* The Google sub of the identity each user signs in with.
PrimarySub == [u \in Users |-> IF u = "uA" THEN "g1" ELSE "g2"]

\* token.get("refresh_token") of the OAuth response: a token, or none.
RefreshTokens == {"rt", "none"}

AccountKey(a) == <<a.user_id, a.google_sub>>

\* insert without the unique constraint: the row is always added.
InsertAccountUnconstrained(accts, row) == accts \cup {row}

\* insert(account_data): rejected by the unique constraint when a row with
\* the same (user_id, google_sub) exists; the exception is caught and
\* logged by ensure_primary_account_stored.
InsertAccount(accts, row) ==
    IF \E a \in accts : AccountKey(a) = AccountKey(row)
      THEN accts
      ELSE accts \cup {row}

\* upsert(upsert_data, on_conflict="user_id,google_sub")
UpsertAccount(accts, row) ==
    {a \in accts : AccountKey(a) # AccountKey(row)} \cup {row}

\* POST /emails/store-primary-account: 400 (raised as 500) without a
\* Google token; otherwise the account is looked up by (user_id, email) and
\* inserted when that finds nothing.  ret keeps the rows the lookup found.
StorePrimaryAccount(u, tok, user_email) ==
    /\ BetweenHandlers
    /\ LET existing == {a \in gmail_accounts :
                          a.user_id = u /\ a.email = user_email}
           account_data == [user_id |-> u, google_sub |-> PrimarySub[u],
                            email |-> user_email, access_token |-> tok,
                            refresh_token |-> PrimarySentinel]
       IN  gmail_accounts' =
             IF tok = NoToken \/ existing # {}
               THEN gmail_accounts
               ELSE InsertAccount(gmail_accounts, account_data)
    /\ ret' = [op |-> IF tok = NoToken THEN "store_primary_account: 400"
                      ELSE "store_primary_account",
               user |-> u,
               rows |-> {a \in gmail_accounts :
                           tok # NoToken /\ a.user_id = u /\ a.email = user_email}]
    /\ UNCHANGED <<raw_emails, processed_emails, categories, remote, runvars,
                   conflicts, response, inflight>>

\* GET /link/callback for the session of user u, Google answering with the
\* account sub, its address and a refresh token or none: 400 when there is
\* neither a new nor a stored refresh token, else the upsert.
LinkCallback(u, sub, email, new_refresh) ==
    /\ BetweenHandlers
    /\ LET existing_account == {a \in gmail_accounts :
                                  a.user_id = u /\ a.google_sub = sub}
           refresh_token ==
               IF new_refresh # "none" THEN new_refresh
               ELSE IF existing_account # {}
                 THEN (CHOOSE a \in existing_account : TRUE).refresh_token
               ELSE "none"
           upsert_data == [user_id |-> u, google_sub |-> sub, email |-> email,
                           access_token |-> "at", refresh_token |-> refresh_token]
       IN  gmail_accounts' =
             IF refresh_token = "none"
               THEN gmail_accounts
               ELSE UpsertAccount(gmail_accounts, upsert_data)
    /\ ret' = [op |-> "link_callback", user |-> u,
               rows |-> gmail_accounts' \ gmail_accounts]
    /\ UNCHANGED <<raw_emails, processed_emails, categories, remote, runvars,
                   conflicts, response, inflight>>

\* No account is stored yet.
InitAccounts ==
    /\ gmail_accounts = {}
    /\ raw_emails = {}
    /\ processed_emails = {}
    /\ categories = {}
    /\ mailbox = SharedIdMailboxes
    /\ labels = [k \in {<<m.google_sub, m.id>> : m \in mailbox} |-> "INBOX"]
    /\ IdleRun
    /\ conflicts = FALSE
    /\ ret = NoCall
    /\ response = NoResponse
    /\ inflight = NoneInFlight

NextAccounts ==
    \/ \E u \in Users, tok \in Tokens, e \in Emails :
          StorePrimaryAccount(u, tok, e)
    \/ \E u \in Users, sub \in Subs, e \in Emails, rt \in RefreshTokens :
          LinkCallback(u, sub, e, rt)

SpecAccounts == InitAccounts /\ [][NextAccounts]_vars

(***************************************************************************)
(* The extraction functions on their own: one call on one input.           *)
(***************************************************************************)
\* An input waiting for its call.
Given(kind, input) == [op |-> kind, user |-> "none", rows |-> {input}]

\* The call made and what it returned.
Returns(op, input, output) ==
    [op |-> op, user |-> "none", rows |-> {[input |-> input, output |-> output]}]

InitExtract ==
    /\ gmail_accounts = LinkedAtStart
    /\ raw_emails = {}
    /\ processed_emails = {}
    /\ categories = {}
    /\ mailbox = SharedIdMailboxes
    /\ labels = [k \in {<<m.google_sub, m.id>> : m \in mailbox} |-> "INBOX"]
    /\ IdleRun
    /\ conflicts = FALSE
    /\ response = NoResponse
    /\ inflight = NoneInFlight
    /\ ret \in { Given("payload", p) : p \in Payloads }
               \cup { Given("message", m) : m \in Messages }

\* extract_email_body(payload)
CallExtractEmailBody ==
    /\ ret.op = "payload"
    /\ \E payload \in ret.rows :
          ret' = Returns("extract_email_body", payload, ExtractEmailBody(payload))
    /\ UNCHANGED <<tables, remote, runvars, conflicts, response, inflight>>

\* extract_unsubscribe_link(headers, body)
CallExtractUnsubscribeLink ==
    /\ ret.op = "message"
    /\ \E message \in ret.rows :
          ret' = Returns("extract_unsubscribe_link", message,
                         ExtractUnsubscribeLink(message.headers, message.body))
    /\ UNCHANGED <<tables, remote, runvars, conflicts, response, inflight>>

NextExtract ==
    \/ CallExtractEmailBody
    \/ CallExtractUnsubscribeLink

SpecExtract == InitExtract /\ [][NextExtract]_vars

(***************************************************************************)
(* The merge of poll_all_gmail_accounts on its own: the lists the polls of *)
(* the accounts returned are concatenated in the order in which the        *)
(* accounts were listed, and sorted.                                       *)
(***************************************************************************)
\* The most messages one poll returns.
MaxBacklog == 3

\* Three unprocessed messages of user uA; m1 and m2 were received at the
\* same time, m3 before them.
BacklogEntries ==
    { Entry([user_id |-> "uA", gmail_message_id |-> "m1", thread_id |-> "t1",
             google_sub |-> "g1", received_at |-> 2]),
      Entry([user_id |-> "uA", gmail_message_id |-> "m2", thread_id |-> "t2",
             google_sub |-> "g2", received_at |-> 2]),
      Entry([user_id |-> "uA", gmail_message_id |-> "m3", thread_id |-> "t3",
             google_sub |-> "g2", received_at |-> 1]) }

\* What one poll can return: get_unprocessed_emails orders by received_at
\* descending, rows of equal received_at in either order.
Backlogs ==
    UNION { OrderedDesc(S) :
              S \in {T \in SUBSET BacklogEntries : Cardinality(T) <= MaxBacklog} }

RECURSIVE Concatenation(_, _)
\* all_emails.extend(emails), for each account of order in turn.
Concatenation(order, lists) ==
    IF order = <<>> THEN <<>>
    ELSE lists[Head(order)] \o Concatenation(Tail(order), lists)

\* Every poll returns the whole backlog of the user, and nothing leaves the
\* backlog while the accounts are polled: the list of an account holds the
\* messages of the lists of the accounts polled before it.
Feasible(order, lists) ==
    \A a, b \in DOMAIN order :
        a < b => Range(lists[order[a]]) \subseteq Range(lists[order[b]])

\* The lists the polls of one run can return.
PolledLists ==
    { lists \in [Subs -> Backlogs] :
        \E order \in AnyOrder(Subs) : Feasible(order, lists) }

InitMerge ==
    /\ gmail_accounts = LinkedAtStart
    /\ raw_emails = {}
    /\ processed_emails = {}
    /\ categories = {}
    /\ mailbox = SharedIdMailboxes
    /\ labels = [k \in {<<m.google_sub, m.id>> : m \in mailbox} |-> "INBOX"]
    /\ IdleRun
    /\ conflicts = FALSE
    /\ response = NoResponse
    /\ inflight = NoneInFlight
    /\ ret \in { Given("lists", lists) : lists \in PolledLists }

\* The loop over the accounts, listed in some order, and the sort.
CallMerge ==
    /\ ret.op = "lists"
    /\ \E lists \in ret.rows, order \in AnyOrder(Subs) :
          /\ Feasible(order, lists)
          /\ ret' = Returns("merge", [lists |-> lists, order |-> order],
                            SortDesc(Concatenation(order, lists)))
    /\ UNCHANGED <<tables, remote, runvars, conflicts, response, inflight>>

NextMerge ==
    \/ CallMerge

SpecMerge == InitMerge /\ [][NextMerge]_vars

(***************************************************************************)
(* Properties of the ingestion run (specification Spec).                   *)
(***************************************************************************)
\* The raw rows of the user whose full key is the key of no processed row.
AntiJoin(u, raw, proc) ==
    {r \in RowsOf(u, raw) : Key(r) \notin Keys(RowsOf(u, proc))}

\* The step is a poll_gmail call that returned.
PollReturned ==
    /\ pc = "polling"
    /\ Len(poll_log') = Len(poll_log) + 1
    /\ poll_log'[Len(poll_log')].result = "polled"

\* What that call returned: the part it added to all_emails.
Returned == SubSeq(all_emails', Len(all_emails) + 1, Len(all_emails'))

\* C1: what get_unprocessed_emails returns (here to poll_gmail, which returns
\* it) is exactly the raw rows of the user whose full key (user id, message
\* id, thread id, account_sub) is the key of no processed row; a processed
\* row for the same message id in another account hides nothing.
C1_UnprocessedIsAntiJoinOnFullKey ==
    [][ PollReturned =>
          Range(Returned) =
            {Entry(r) : r \in AntiJoin(run_user, raw_emails', processed_emails')}
      ]_vars

\* C2: however often a message is polled, raw_emails holds one row for its
\* key: no two rows share (user_id, gmail_message_id, thread_id, google_sub).
C2_OneRawRowPerKey ==
    \A r1, r2 \in raw_emails : Key(r1) = Key(r2) => r1 = r2

\* A poll has upserted a message that already had a row, and the row is there.
C2_RepolledWitness ==
    /\ conflicts
    /\ \E r \in raw_emails : r.archived

\* C3: when the loop has ended, every entry whose iteration did not fail has
\* a processed row under its key, no entry that only failed has one, every
\* non-failing entry was counted, and no exception left the task.
C3_PartialFailureIsolation ==
    (pc = "done" /\ run_categories # {}) =>
        /\ \A k \in ok_keys : k \in Keys(processed_emails)
        /\ \A k \in failed_keys \ ok_keys : k \notin Keys(processed_emails)
        /\ Cardinality(ok_keys) <= processed_count
        /\ processed_count <= Len(emails)
        /\ ~poll_raised

\* C4: a run never invokes the Classifier for a message whose processed row
\* existed when the run began, and never changes the category id or the
\* summary of such a row.
C4_ProcessedNeverReclassified ==
    [][ /\ (pc = "classifying" /\ i' = i + 1) => Key(emails[i + 1]) \notin start_keys
        /\ \A p \in processed_emails :
             (pc # "idle" /\ pc' # "queued" /\ Key(p) \in start_keys) =>
                \E q \in processed_emails' :
                    /\ Key(q) = Key(p)
                    /\ q.category_id = p.category_id
                    /\ q.ai_summary = p.ai_summary
      ]_vars

\* A run that began with a processed row in storage has classified another
\* message and ended.
C4_LaterRunWitness ==
    /\ pc = "done"
    /\ start_keys # {}
    /\ ok_keys # {}

\* C5: when poll_all_gmail_accounts has returned, it has not raised, every
\* account of the user was gone through, and every account that neither
\* failed nor lacked a credential was polled: its batch is in raw_emails.
C5_AccountIsolation ==
    pc \in {"classifying", "done"} =>
        /\ ~poll_raised
        /\ {e.google_sub : e \in Range(poll_log)} =
              {a.google_sub : a \in RowsOf(run_user, gmail_accounts)}
        /\ \A e \in Range(poll_log) :
              \/ e.result \in {"failed", "skipped"}
              \/ /\ e.result = "polled"
                 /\ \A m \in ListMessages(e.google_sub) :
                       <<run_user, m.id, m.threadId, e.google_sub>> \in Keys(raw_emails)

\* The call has returned after one account failed and another was polled.
C5_OneFailedOnePolledWitness ==
    /\ pc \in {"classifying", "done"}
    /\ \E e \in Range(poll_log) : e.result = "failed"
    /\ \E e \in Range(poll_log) :
          /\ e.result = "polled"
          /\ \E r \in raw_emails : r.google_sub = e.google_sub

\* The step is an iteration of the loop that failed, for an entry that has no
\* processed row.
FailedForUnprocessed ==
    /\ pc = "classifying"
    /\ i' = i + 1
    /\ processed_count' = processed_count
    /\ Key(emails[i + 1]) \notin Keys(processed_emails)

\* C6: when the classification of a message fails, no processed row is
\* written, and get_unprocessed_emails still returns the message, so that the
\* next run offers it to the Classifier again.
C6_FailedStaysUnprocessed ==
    [][ FailedForUnprocessed =>
          /\ processed_emails' = processed_emails
          /\ Key(emails[i + 1]) \in
                Keys(Unprocessed(run_user, raw_emails', processed_emails'))
      ]_vars

\* C9: every processed row has exactly one category of its user whose
\* category_id is the row's category_id.
C9_ProcessedRefersToCategory ==
    \A p \in processed_emails :
        Cardinality({c \in categories :
                        c.user_id = p.user_id /\ c.category_id = p.category_id}) = 1

(***************************************************************************)
(* Properties of archiving (specification SpecArchive).                    *)
(***************************************************************************)
\* C10: a raw row is marked archived only when the remote removal of the
\* INBOX label has succeeded for its message, in the mailbox of its account.
C10_ArchivedOnlyAfterRemoteArchive ==
    \A r \in raw_emails :
        r.archived => labels[<<r.google_sub, r.gmail_message_id>>] = "ARCHIVED"

(***************************************************************************)
(* Properties of the Repository (specification SpecRepo).                  *)
(***************************************************************************)
\* The step is a call of a Repository operation.
Called == ret = NoCall /\ ret' # NoCall

\* C7: an operation issued for a user returns no row of another user and
\* changes no row of another user, in any table.
C7_Scoping ==
    [][ Called =>
          /\ \A row \in ret'.rows : row.user_id = ret'.user
          /\ \A b \in Users \ {ret'.user} :
                /\ RowsOf(b, raw_emails') = RowsOf(b, raw_emails)
                /\ RowsOf(b, processed_emails') = RowsOf(b, processed_emails)
                /\ RowsOf(b, categories') = RowsOf(b, categories)
                /\ RowsOf(b, gmail_accounts') = RowsOf(b, gmail_accounts)
      ]_vars

\* The category ids of the user.
CategoryIds(u, cats) == {c.category_id : c \in RowsOf(u, cats)}

\* The greatest element of a non-empty set of numbers.
Maximum(S) == CHOOSE x \in S : \A y \in S : y <= x

\* C8: create_category adds one category of the user, whose category_id is
\* max(S) + 1 when the user's category ids are the non-empty set S and 1
\* when the user has none; the categories of other users play no part.
C8_CategoryIdIsMaxPlusOne ==
    [][ (Called /\ ret'.op = "create_category") =>
          LET u == ret'.user
              S == CategoryIds(u, categories)
          IN  \E c \in ret'.rows :
                /\ ret'.rows = {c}
                /\ categories' = categories \cup {c}
                /\ c \notin categories
                /\ c.user_id = u
                /\ c.category_id = IF S = {} THEN 1 ELSE Maximum(S) + 1
      ]_vars

\* A category was created for a user whose ids had a gap below their
\* maximum, while another user has a category id above that maximum.
C8_GapWitness ==
    /\ ret.op = "create_category"
    /\ \E c \in ret.rows :
          /\ \E k \in 1..(c.category_id - 2) : k \notin CategoryIds(ret.user, categories)
          /\ CategoryIds(ret.user, categories) # {c.category_id}
          /\ \E o \in categories : o.user_id # ret.user /\ o.category_id >= c.category_id

(***************************************************************************)
(* Properties of deleting (specification SpecDelete).                      *)
(***************************************************************************)
\* The step takes a raw row of user u with message id m out of raw_emails.
RawDeleted(u, m) ==
    /\ \E r \in raw_emails : r.user_id = u /\ r.gmail_message_id = m
    /\ \A r \in raw_emails' : ~(r.user_id = u /\ r.gmail_message_id = m)

\* C11: a processed row never outlives its raw row, and once delete_emails
\* has taken the raw rows of a message id of a user out of storage, no raw
\* and no processed row of that user with that id is left, whether or not
\* the remote trash calls succeeded.
C11_DeletedTogether ==
    /\ [](Keys(processed_emails) \subseteq Keys(raw_emails))
    /\ [][ \A u \in Users, m \in MessageIds :
             RawDeleted(u, m) =>
                \A p \in processed_emails' :
                    ~(p.user_id = u /\ p.gmail_message_id = m)
         ]_vars

\* delete_emails has deleted a processed row, and so its raw row, of a
\* message that is still not in the trash: its remote call failed.
C11_DeletedDespiteTrashFailureWitness ==
    /\ ret.op = "delete_emails"
    /\ \E p \in ret.rows :
          /\ labels[<<p.google_sub, p.gmail_message_id>>] # "TRASH"
          /\ GetEmailsByIds(p.user_id, {p.gmail_message_id}, raw_emails) = {}
          /\ GetEmailsByIds(p.user_id, {p.gmail_message_id}, processed_emails) = {}

(***************************************************************************)
(* Properties of triggering (specification SpecTrigger).                   *)
(***************************************************************************)
\* A run is under way: queued, polling or classifying.
Running == pc \in {"queued", "polling", "classifying"}

\* C12, as stated: every trigger request is answered with the 'started'
\* acknowledgment.
C12_AlwaysAcknowledged ==
    response.body \in {"none", "started"}

\* C12, amended: a trigger request whose user has a Google sub id queues a
\* run and is answered with the 'started' acknowledgment before the run has
\* begun, and no step of the run, whatever fails in it, changes the answer.
C12_AcknowledgedBeforeRun ==
    [][ /\ (~Running /\ Running') =>
              /\ pc' = "queued"
              /\ response' = [user |-> run_user', body |-> "started"]
        /\ Running => response' = response
      ]_vars

\* A run in which an account failed and a classification failed has ended,
\* and the answer to its trigger is the acknowledgment.
C12_FailedRunWitness ==
    /\ pc = "done"
    /\ response = [user |-> run_user, body |-> "started"]
    /\ failed_keys # {}
    /\ \E e \in Range(poll_log) : e.result = "failed"

(***************************************************************************)
(* Properties of the extraction functions (specification SpecExtract).     *)
(***************************************************************************)
RECURSIVE Content(_)
RECURSIVE FirstContent(_, _)
\* The first non-empty content of the parts from k on, by depth-first,
\* in-order traversal; "" when there is none.
FirstContent(parts, k) ==
    IF k > Len(parts) THEN ""
    ELSE IF Content(parts[k]) # "" THEN Content(parts[k])
    ELSE FirstContent(parts, k + 1)

\* The decoded content a node holds: of a leaf its data, of a container the
\* first non-empty content of its parts.
Content(node) ==
    IF node.has_data THEN Decode(node.data)
    ELSE IF node.has_parts THEN FirstContent(node.parts, 1)
    ELSE ""

\* The children of the payload are containers only, and one holds content.
OnlyContainers(p) ==
    /\ p.has_parts
    /\ p.parts # <<>>
    /\ \A k \in DOMAIN p.parts : p.parts[k].has_parts
    /\ Content(p) # ""

\* C13: for a payload whose children are only nested containers, the result
\* is the first non-empty content found by depth-first, in-order traversal;
\* a container without content is passed over.
C13_NestedFirstContent ==
    \A call \in ret.rows :
        (ret.op = "extract_email_body" /\ OnlyContainers(call.input)) =>
            call.output = Content(call.input)

\* The contents of the HTML leaves among the parts of the payload.
HtmlContents(p) ==
    { Decode(p.parts[k].data) : k \in
        { j \in DOMAIN p.parts :
            p.parts[j].mimeType = "text/html" /\ p.parts[j].has_data } }

\* The contents of the plain-text leaves among the parts of the payload.
PlainContents(p) ==
    { Decode(p.parts[k].data) : k \in
        { j \in DOMAIN p.parts :
            p.parts[j].mimeType = "text/plain" /\ p.parts[j].has_data } }

\* C14: for a multipart payload that has an HTML leaf and a plain-text leaf,
\* both with content, among its parts, in either order, the result is the
\* decoded HTML content.
C14_HtmlPreferred ==
    \A call \in ret.rows :
        ( /\ ret.op = "extract_email_body"
          /\ call.input.has_parts
          /\ HtmlContents(call.input) \ {""} # {}
          /\ PlainContents(call.input) \ {""} # {} ) =>
            call.output \in HtmlContents(call.input)

RECURSIVE HasData(_)
\* Some node of the payload has body data.
HasData(node) ==
    \/ node.has_data
    \/ \E k \in DOMAIN node.parts : HasData(node.parts[k])

\* C15: for a payload without body data anywhere (the empty payload, a node
\* with neither data nor parts, parts without a text leaf) the result is the
\* fallback string.
C15_FallbackWhenNothingDecodable ==
    \A call \in ret.rows :
        (ret.op = "extract_email_body" /\ ~HasData(call.input)) =>
            call.output = Fallback

\* The names under which a message carries the List-Unsubscribe header.
ListUnsubscribeNames == {"List-Unsubscribe", "list-unsubscribe"}

\* The positions of the List-Unsubscribe headers of a message.
ListUnsubscribeHeaders(headers) ==
    {k \in DOMAIN headers : headers[k].name \in ListUnsubscribeNames}

\* The URL a header value carries: the first one in angle brackets, else
\* the first bare URL token, else "".
UrlCarried(value) ==
    LET inBrackets == {k \in DOMAIN value : value[k].bracketed # ""}
        bare == {k \in DOMAIN value : value[k].direct # ""}
    IN  IF inBrackets # {}
          THEN value[CHOOSE k \in inBrackets : \A j \in inBrackets : k <= j].bracketed
        ELSE IF bare # {}
          THEN value[CHOOSE k \in bare : \A j \in bare : k <= j].direct
        ELSE ""

\* Whether body pattern n (1, 2, 3 in the order of the list) matches token t.
PatternMatches(t, n) ==
    CASE n = 1 -> t.unsubscribe
      [] n = 2 -> t.opt_out
      [] n = 3 -> t.click

\* The first match of the ordered body patterns: the leftmost match of the
\* first pattern that matches anywhere in the body; NoLink when none does.
FirstPatternMatch(body) ==
    LET matching == {n \in 1..3 : \E k \in DOMAIN body : PatternMatches(body[k], n)}
    IN  IF matching = {} THEN NoLink
        ELSE LET n == CHOOSE a \in matching : \A b \in matching : a <= b
                 at == {k \in DOMAIN body : PatternMatches(body[k], n)}
             IN  body[CHOOSE k \in at : \A j \in at : k <= j].text

\* The results of the calls of extract_unsubscribe_link that returned.
LinksExtracted ==
    IF ret.op = "extract_unsubscribe_link" THEN ret.rows ELSE {}

\* C16 (as stated): when some List-Unsubscribe header of the message carries
\* a URL, extract_unsubscribe_link returns the URL of such a header whatever
\* the body contains; when no List-Unsubscribe header carries a URL it
\* returns the first match of the ordered body patterns, none when there
\* is no match.
C16_AnyHeaderUrlWins ==
    \A r \in LinksExtracted :
        LET carrying == {k \in ListUnsubscribeHeaders(r.input.headers) :
                            UrlCarried(r.input.headers[k].value) # ""}
        IN  IF carrying # {}
              THEN r.output \in {UrlCarried(r.input.headers[k].value) : k \in carrying}
              ELSE r.output = FirstPatternMatch(r.input.body)

\* C16 (amended): the header that counts is the first List-Unsubscribe
\* header of the message.  When it carries a URL, that URL is returned
\* whatever the body contains; when the message has no such header or the
\* first one carries no URL, the first match of the ordered body patterns is
\* returned, none when there is no match.
C16_FirstHeaderUrlWins ==
    \A r \in LinksExtracted :
        LET lu == ListUnsubscribeHeaders(r.input.headers)
            url == IF lu = {} THEN ""
                   ELSE UrlCarried(r.input.headers[CHOOSE k \in lu : \A j \in lu : k <= j].value)
        IN  IF url # "" THEN r.output = url
            ELSE r.output = FirstPatternMatch(r.input.body)

\* The header, written in lower case and after another header, carries a
\* bracketed URL, the body holds an unsubscribe URL, and the header's URL
\* was returned.
C16_HeaderBeatsBodyWitness ==
    \E r \in LinksExtracted :
        /\ Len(r.input.headers) = 2
        /\ r.input.headers[1].name = "Subject"
        /\ r.input.headers[2].name = "list-unsubscribe"
        /\ \E k \in DOMAIN r.input.headers[2].value :
              r.input.headers[2].value[k].bracketed = "https://h.test/a"
        /\ \E k \in DOMAIN r.input.body : r.input.body[k].unsubscribe
        /\ r.output = "https://h.test/a"

\* The first List-Unsubscribe header carries only a mailto address, a
\* second one carries a URL, and the body's link was returned.
C16_SecondHeaderIgnoredWitness ==
    \E r \in LinksExtracted :
        /\ Len(r.input.headers) = 2
        /\ r.input.headers[1].name \in ListUnsubscribeNames
        /\ UrlCarried(r.input.headers[1].value) = ""
        /\ r.input.headers[2].name \in ListUnsubscribeNames
        /\ UrlCarried(r.input.headers[2].value) # ""
        /\ r.output = FirstPatternMatch(r.input.body)

Listed == RowsOf(run_user, gmail_accounts)

\* Every listed account has been polled, skipped or has failed.
AllPolled == accounts = <<>> /\ Len(poll_log) = Cardinality(Listed)

\* A poll is taken only while polling, of an account that was listed and
\* not polled yet in this run.
ListedBeforePolled ==
    (pc' # "queued" /\ poll_log' # poll_log) =>
        /\ pc = "polling"
        /\ \E a \in Listed :
              /\ a.google_sub = poll_log'[Len(poll_log')].google_sub
              /\ \A k \in DOMAIN poll_log : poll_log[k].google_sub # a.google_sub

\* Polling is left, and the merged list built, only when every account's
\* poll has finished; the merged list is the sorted concatenation.
PolledBeforeMerged ==
    /\ (pc = "polling" /\ pc' # "polling") =>
          AllPolled /\ emails' = SortDesc(all_emails)
    /\ (pc' # "queued" /\ emails' # emails) => pc = "polling" /\ AllPolled

\* Classification is entered from polling only, and a message is
\* classified only after the merge, from the merged list.
MergedBeforeClassified ==
    /\ (pc' = "classifying" /\ pc # "classifying") => pc = "polling"
    /\ (pc' # "queued" /\ (i' # i \/ ok_keys' # ok_keys
                           \/ failed_keys' # failed_keys
                           \/ Keys(processed_emails') # Keys(processed_emails))) =>
          /\ pc = "classifying"
          /\ emails = SortDesc(all_emails)
          /\ AllPolled

\* The stages are never gone through backwards within a run.
StageRank ==
    CASE pc = "queued" -> 1
      [] pc = "polling" -> 2
      [] pc = "classifying" -> 3
      [] OTHER -> 4

\* C18: a run goes through its stages in order (accounts are listed before
\* any poll, every account's poll has finished before the merged list is
\* built, classification starts only after merging) and every run that was
\* queued reaches Done, whatever accounts and messages fail.
C18_StagesInOrderAndRunEnds ==
    /\ [][/\ ListedBeforePolled
          /\ PolledBeforeMerged
          /\ MergedBeforeClassified
          /\ (pc' # "queued" => StageRank' >= StageRank)]_vars
    /\ (pc = "queued") ~> (pc = "done")

\* A run has ended in which one account failed, one was polled, one
\* message was classified and one classification failed.
C18_RunEndedDespiteFailuresWitness ==
    /\ pc = "done"
    /\ \E e \in Range(poll_log) : e.result = "failed"
    /\ \E e \in Range(poll_log) : e.result = "polled"
    /\ ok_keys # {}
    /\ failed_keys # {}

(***************************************************************************)
(* Properties of what the polls return (specification Spec).               *)
(***************************************************************************)
\* The batch of the poll_gmail call that returned in this step.
Batch ==
    FormattedEmails(run_user, poll_log'[Len(poll_log')].google_sub,
                    ListMessages(poll_log'[Len(poll_log')].google_sub))

\* C19: poll_gmail returns the whole unprocessed backlog of the user, not
\* the batch just polled: every raw row an earlier poll stored that has no
\* processed row is returned although the batch does not hold it, and no
\* message that has a processed row is returned, be it of the batch or not.
C19_ReturnsWholeBacklog ==
    [][ PollReturned =>
          /\ \A r \in RowsOf(run_user, raw_emails) :
                (Key(r) \notin Keys(Batch) /\ Key(r) \notin Keys(processed_emails'))
                    => Entry(r) \in Range(Returned)
          /\ \A e \in Range(Returned) : Key(e) \notin Keys(processed_emails')
      ]_vars

(***************************************************************************)
(* Properties of the merge (specification SpecMerge).                      *)
(***************************************************************************)
\* The merges made: their inputs and outputs.
Merged == IF ret.op = "merge" THEN ret.rows ELSE {}

\* out is c sorted by received_at descending, elements of equal received_at
\* in the order they have in c.
StablySortedDesc(c, out) ==
    /\ Len(out) = Len(c)
    /\ \E p \in [DOMAIN out -> DOMAIN c] :
          /\ \A a \in DOMAIN out : out[a] = c[p[a]]
          /\ \A a, b \in DOMAIN out :
                a < b => /\ out[a].received_at >= out[b].received_at
                         /\ p[a] # p[b]
                         /\ out[a].received_at = out[b].received_at => p[a] < p[b]

\* The merged list is the same in whichever order the accounts are listed.
SameForEveryOrder(r) ==
    \A order \in AnyOrder(Subs) :
        Feasible(order, r.input.lists) =>
            SortDesc(Concatenation(order, r.input.lists)) = r.output

\* No message of one account's list was received at the same time as a
\* different message of another account's list.
NoTieAcrossAccounts(lists) ==
    \A g, h \in Subs : \A a \in Range(lists[g]), b \in Range(lists[h]) :
        (g # h /\ a # b) => a.received_at # b.received_at

TwoMessageMailboxes ==
    { Message("g1", "m1", "t1", 3, "url"),
      Message("g1", "m2", "t2", 2, "null") }

MutationOps == {"poll_gmail", "delete_emails", "archive_emails"}

\* How a remote mutation of one message ends: the remote call and what
\* follows it in the same try succeed, the remote call raises, or (in
\* poll_gmail) mark_as_archived raises after the remote call.
CallResults(op) ==
    IF op = "poll_gmail" THEN {"ok", "remote_failed", "mark_failed"}
    ELSE {"ok", "remote_failed"}

\* The handler after a call of its loop has been made.
AfterCall(l, call, result) ==
    [l EXCEPT !.pending = Tail(@), !.issued = Append(@, <<call, result>>)]

\* As AfterFailure, if the exception left the loop and the handler.
AbortOnFailure(l, call, result) ==
    [l EXCEPT !.pending = <<>>, !.issued = Append(@, <<call, result>>),
              !.outcome = "raised"]

\* The except branch around one call: the warning is printed and the loop
\* goes on with the next message.
AfterFailure(l, call, result) == AfterCall(l, call, result)

InProgress(w) == inflight[w].outcome = "running"

OneEventLoop == \A w \in Workers : ~InProgress(w)

\* poll_gmail up to its archive loop: the batch is listed and upserted.
BeginPollGmail(w, u, g, tok) ==
    /\ OneEventLoop
    /\ \E a \in RowsOf(u, gmail_accounts) :
          a.google_sub = g /\ Credential(a, tok) # "none"
    /\ LET emails_to_store == FormattedEmails(u, g, ListMessages(g))
           calls == {<<g, e.gmail_message_id>> : e \in emails_to_store}
       IN  /\ raw_emails' = IF emails_to_store = {} THEN raw_emails
                            ELSE UpsertRaw(raw_emails, emails_to_store)
           /\ \E order \in AnyOrder(calls) :
                inflight' = [inflight EXCEPT ![w] =
                    Locals("poll_gmail", u, {c[2] : c \in calls}, order,
                           <<>>, calls, 0, "running")]
    /\ UNCHANGED <<processed_emails, gmail_accounts, categories, remote,
                   runvars, conflicts, ret, response>>

\* delete_emails or archive_emails up to its loop over the accounts: each id
\* is looked up and the ids are grouped by account; the accounts that are
\* skipped contribute no call.
BeginBatch(w, op, u, ids, tok) ==
    /\ OneEventLoop
    /\ op \in {"delete_emails", "archive_emails"}
    /\ LET known == {id \in ids : GetEmailsByIds(u, {id}, raw_emails) # {}}
       IN  \E found \in [known -> RowsOf(u, raw_emails)] :
             /\ \A id \in known : found[id].gmail_message_id = id
             /\ \E order \in AnyOrder(ArchiveCalls(u, found, tok)) :
                  inflight' = [inflight EXCEPT ![w] =
                      Locals(op, u, ids, order, <<>>, Range(order), 0, "running")]
    /\ UNCHANGED <<tables, remote, runvars, conflicts, ret, response>>

\* One pass of the loop over the messages: the remote call, and in
\* poll_gmail the mark_as_archived that follows it.
RemoteCall(w, result) ==
    /\ InProgress(w) /\ inflight[w].pending # <<>>
    /\ result \in CallResults(inflight[w].op)
    /\ LET l == inflight[w]
           call == Head(l.pending)
       IN  /\ labels' =
                IF result = "remote_failed" THEN labels
                ELSE IF l.op = "delete_emails" THEN Trash(labels, {call})
                ELSE RemoveInbox(labels, {call})
           /\ IF l.op = "poll_gmail" /\ result = "ok"
                THEN /\ raw_emails' = MarkArchived(raw_emails, l.user, {call[2]})
                     /\ processed_emails' =
                           MarkArchived(processed_emails, l.user, {call[2]})
                ELSE UNCHANGED <<raw_emails, processed_emails>>
           /\ inflight' = [inflight EXCEPT ![w] =
                IF result = "ok" THEN AfterCall(l, call, result)
                ELSE AfterFailure(l, call, result)]
    /\ UNCHANGED <<mailbox, gmail_accounts, categories, runvars, conflicts,
                   ret, response>>

\* As DeleteOutcome, if delete_processed_emails did not raise when it
\* deleted no row.
DeleteOutcomeRawOnly(raw_deleted, processed_deleted) ==
    IF raw_deleted = {} THEN "raised" ELSE "returned"

\* How delete_emails ends, given the rows its two Repository calls deleted:
\* each call raises when it deleted no row, the route answers 500 when the
\* service raised and the success message otherwise.
DeleteOutcome(raw_deleted, processed_deleted) ==
    IF raw_deleted = {} \/ processed_deleted = {} THEN "raised" ELSE "returned"

\* What follows the loops: poll_gmail returns the unprocessed rows,
\* archive_emails marks every id of the request archived, delete_emails
\* deletes the raw rows and then the processed rows, each of which raises
\* when no row was deleted.
FinishBatch(w) ==
    /\ InProgress(w) /\ inflight[w].pending = <<>>
    /\ LET l == inflight[w]
           raw == CASE l.op = "delete_emails" -> DeleteRaw(raw_emails, l.user, l.ids)
                    [] l.op = "archive_emails" -> MarkArchived(raw_emails, l.user, l.ids)
                    [] OTHER -> raw_emails
           proc == CASE l.op = "delete_emails" /\ raw # raw_emails ->
                           DeleteProcessed(processed_emails, l.user, l.ids)
                     [] l.op = "archive_emails" ->
                           MarkArchived(processed_emails, l.user, l.ids)
                     [] OTHER -> processed_emails
       IN  /\ raw_emails' = raw
           /\ processed_emails' = proc
           /\ inflight' = [inflight EXCEPT ![w].outcome =
                 IF l.op = "delete_emails"
                   THEN DeleteOutcome(raw_emails \ raw, processed_emails \ proc)
                   ELSE "returned"]
    /\ UNCHANGED <<gmail_accounts, categories, remote, runvars, conflicts,
                   ret, response>>

\* save_email_categories for a stored message, as the loop of a run calls it.
SaveEmailCategories(u, id) ==
    /\ OneEventLoop
    /\ \E answer \in ModelResults(RowsOf(u, categories)) :
       \E row \in GetEmailsByIds(u, {id}, raw_emails) :
          processed_emails' =
             UpsertProcessed(processed_emails,
                ProcessedRow(u, row, [category_id |-> answer.category_id,
                                      summary |-> answer.summary,
                                      gmail_message_id |-> id]))
    /\ UNCHANGED <<gmail_accounts, raw_emails, categories, remote, runvars,
                   conflicts, ret, response, inflight>>

InitMutations ==
    /\ gmail_accounts = LinkedAtStart
    /\ raw_emails = {}
    /\ processed_emails = {}
    /\ categories = {NewCategory("uA", {})}
    /\ mailbox = TwoMessageMailboxes
    /\ labels = [k \in {<<m.google_sub, m.id>> : m \in mailbox} |-> "INBOX"]
    /\ IdleRun
    /\ conflicts = FALSE
    /\ ret = NoCall
    /\ response = NoResponse
    /\ inflight = NoneInFlight

NextMutations ==
    \/ \E u \in Users, g \in Subs, tok \in Tokens : BeginPollGmail("w1", u, g, tok)
    \/ \E op \in MutationOps, u \in Users, ids \in SUBSET MessageIds, tok \in Tokens :
          BeginBatch("w1", op, u, ids, tok)
    \/ \E result \in {"ok", "remote_failed", "mark_failed"} : RemoteCall("w1", result)
    \/ FinishBatch("w1")
    \/ \E u \in Users, id \in MessageIds : SaveEmailCategories(u, id)

SpecMutations == InitMutations /\ [][NextMutations]_vars

(***************************************************************************)
(* C21                                                                     *)
(***************************************************************************)
Ended(l) == l.op \in MutationOps /\ l.outcome \in {"returned", "raised"}

CallsIssued(l) == {l.issued[k][1] : k \in DOMAIN l.issued}

\* Every handler that has ended has made the call for each message of its
\* batch, whatever the calls before it did.
C21_EveryCallIssued ==
    \A w \in Workers : Ended(inflight[w]) => CallsIssued(inflight[w]) = inflight[w].rows

\* A pass of the loop, failed or not, leaves the handler running with the
\* remaining calls still to make; a handler raises only after its loop, and
\* only delete_emails does, when the Repository deleted no raw row or no
\* processed row.
C21_FailureDoesNotAbort ==
    \A w \in Workers :
       LET l == inflight[w] IN
       /\ (InProgress(w) /\ l.pending # <<>> /\ inflight'[w] # l) =>
             /\ inflight'[w].outcome = "running"
             /\ inflight'[w].pending = Tail(l.pending)
             /\ Len(inflight'[w].issued) = Len(l.issued) + 1
       /\ (InProgress(w) /\ inflight'[w].outcome = "raised") =>
             /\ l.pending = <<>>
             /\ l.op = "delete_emails"
             /\ (raw_emails' = raw_emails \/ processed_emails' = processed_emails)

\* C21: in poll_gmail, delete_emails and archive_emails a remote call that
\* fails for one message neither keeps the call from being made for every
\* remaining message of the batch nor makes the operation raise.
C21_RemoteFailuresIsolated ==
    [](C21_EveryCallIssued) /\ [][C21_FailureDoesNotAbort]_vars

\* A batch of two whose first call failed, whose second call was made and
\* succeeded, and whose handler returned.
C21_SecondCallAfterFailureWitness ==
    \E w \in Workers :
       LET l == inflight[w] IN
       /\ l.outcome = "returned"
       /\ Len(l.issued) = 2
       /\ l.issued[1][2] = "remote_failed"
       /\ l.issued[2][2] = "ok"
       /\ labels[l.issued[1][1]] = "INBOX"
       /\ labels[l.issued[2][1]] # "INBOX"

(***************************************************************************)
(* C22                                                                     *)
(***************************************************************************)
\* The stored account an entry of the log is about.
AccountOf(e) ==
    CHOOSE a \in RowsOf(run_user, gmail_accounts) : a.google_sub = e.google_sub

\* Each account the run has gone through: the primary account was skipped
\* when no session credential came with the request and otherwise polled
\* with the session credential and no refresh credential; every other
\* account was polled with its stored pair, not the session credential.
C22_ResolvedPerAccount ==
    \A e \in Range(poll_log) :
       LET a == AccountOf(e) IN
       IF a.refresh_token = PrimarySentinel
         THEN IF provider_token = NoToken
                THEN e.result = "skipped" /\ e.tokens = NoTokens
                ELSE /\ e.result \in {"polled", "failed"}
                     /\ e.tokens = [access_token |-> provider_token,
                                    refresh_token |-> "None"]
         ELSE /\ e.result \in {"polled", "failed"}
              /\ e.tokens = [access_token |-> a.access_token,
                             refresh_token |-> a.refresh_token]
              /\ e.tokens.access_token # provider_token

\* Skipping an account touches neither the tables nor the mailboxes.
C22_SkippedNotPolled ==
    (Len(poll_log') = Len(poll_log) + 1 /\ poll_log'[Len(poll_log')].result = "skipped")
       => UNCHANGED <<tables, remote>>

\* C22: the primary account is polled with the session credential and no
\* refresh credential, and skipped without being polled when no session
\* credential was supplied; every other account is polled with its stored
\* access/refresh pair and never with the session credential.
C22_CredentialResolution ==
    [](C22_ResolvedPerAccount) /\ [][C22_SkippedNotPolled]_vars

\* A run without a session credential that skipped the primary account and
\* polled the other account with its stored pair.
C22_SkippedAndStoredWitness ==
    /\ provider_token = NoToken
    /\ \E e \in Range(poll_log) : e.result = "skipped" /\ e.google_sub = "g1"
    /\ \E e \in Range(poll_log) :
          /\ e.result = "polled" /\ e.google_sub = "g2"
          /\ e.tokens = [access_token |-> "at2", refresh_token |-> "rt2"]
    /\ \E r \in raw_emails : r.google_sub = "g2"
    /\ \A r \in raw_emails : r.google_sub # "g1"

(***************************************************************************)
(* categorize_email on its own: one call on one message and one outcome of *)
(* the model call.                                                         *)
(***************************************************************************)
\* A value of the parsed response: its Python type and its text.
Absent == <<"absent", "">>

CategoryIdValues == {Absent, <<"int", "1">>, <<"str", "1">>}

SummaryValues == {Absent, <<"str", "s1">>, <<"int", "7">>}

ConfidenceValues == {Absent, <<"float", "0.5">>, <<"float", "1.5">>, <<"str", "high">>}

GivenIdValues == {Absent, <<"str", "other">>}

\* A dict: the keys it holds and their values.
Dict(c, s, f, g) ==
    LET all == [category_id |-> c, summary |-> s, confidence |-> f,
                gmail_message_id |-> g]
    IN  [k \in {key \in DOMAIN all : all[key] # Absent} |-> all[k]]

EmptyDict == Dict(Absent, Absent, Absent, Absent)

\* How the model call ends: it raises; or it returns a content that eval
\* cannot evaluate (a JSON literal true, false or null is a NameError), that
\* evaluates to a list, or that evaluates to a dict.
ModelOutcomes ==
    { [kind |-> k, value |-> EmptyDict] : k \in {"api_error", "unparsable", "list"} }
    \cup { [kind |-> "dict", value |-> Dict(c, s, f, g)] :
             c \in CategoryIdValues, s \in SummaryValues,
             f \in ConfidenceValues, g \in GivenIdValues }

\* result[key] = value
SetItem(d, key, value) ==
    [k \in DOMAIN d \cup {key} |-> IF k = key THEN value ELSE d[k]]

ClassificationError == [kind |-> "raised", value |-> EmptyDict]

\* categorize_email: the model call, eval of its content, the assignment of
\* gmail_message_id; an exception of any of the three is raised again.
CategorizeEmail(id, outcome) ==
    IF outcome.kind \in {"api_error", "unparsable", "list"}
      THEN ClassificationError
      ELSE [kind |-> "returned",
            value |-> SetItem(outcome.value, "gmail_message_id", <<"str", id>>)]

InitClassify ==
    /\ gmail_accounts = LinkedAtStart
    /\ raw_emails = {}
    /\ processed_emails = {}
    /\ categories = {}
    /\ mailbox = SharedIdMailboxes
    /\ labels = [k \in {<<m.google_sub, m.id>> : m \in mailbox} |-> "INBOX"]
    /\ IdleRun
    /\ conflicts = FALSE
    /\ response = NoResponse
    /\ inflight = NoneInFlight
    /\ ret \in { Given("email", [id |-> id, outcome |-> o]) :
                    id \in MessageIds, o \in ModelOutcomes }

\* categorize_email(email, categories)
CallCategorizeEmail ==
    /\ ret.op = "email"
    /\ \E call \in ret.rows :
          ret' = Returns("categorize_email", call,
                         CategorizeEmail(call.id, call.outcome))
    /\ UNCHANGED <<tables, remote, runvars, conflicts, response, inflight>>

NextClassify ==
    \/ CallCategorizeEmail

SpecClassify == InitClassify /\ [][NextClassify]_vars

(***************************************************************************)
(* C23                                                                     *)
(***************************************************************************)
\* The response is a dict {category_id: int, summary: str, confidence: float
\* in [0, 1]}.
WellShaped(outcome) ==
    /\ outcome.kind = "dict"
    /\ {"category_id", "summary", "confidence"} \subseteq DOMAIN outcome.value
    /\ outcome.value["category_id"][1] = "int"
    /\ outcome.value["summary"][1] = "str"
    /\ outcome.value["confidence"] = <<"float", "0.5">>

Classified == IF ret.op = "categorize_email" THEN ret.rows ELSE {}

\* C23: categorize_email raises unless the model call returned a response of
\* the shape {category_id: int, summary: string, confidence: float in [0,1]};
\* a result it returns holds category_id and summary, and its
\* gmail_message_id is the id of the message passed in.
C23_RaisesUnlessWellShaped ==
    \A call \in Classified :
       /\ ~WellShaped(call.input.outcome) => call.output.kind = "raised"
       /\ call.output.kind = "returned" =>
             /\ {"category_id", "summary"} \subseteq DOMAIN call.output.value
             /\ call.output.value["gmail_message_id"] = <<"str", call.input.id>>

(***************************************************************************)
(* C24                                                                     *)
(***************************************************************************)
\* The keys of the processed rows of the user of the run that did not exist
\* when the run began.
GainedKeys == Keys(RowsOf(run_user, processed_emails)) \ start_keys

\* C24: within one run the list the classification loop goes through holds
\* no message key twice, and the processed count is the number of distinct
\* messages that gained a processed row in the run.
C24_ClassifiedAndCountedOnce ==
    /\ \A a, b \in DOMAIN emails : a # b => Key(emails[a]) # Key(emails[b])
    /\ pc \in {"classifying", "done"} => processed_count = Cardinality(GainedKeys)

(***************************************************************************)
(* A run and the requests of the user served at the same time, by two      *)
(* workers on the same tables: worker w1 runs the background task, worker  *)
(* w2 serves delete_emails and unsubscribe_email.  A step is one call to   *)
(* the Repository, or what a handler does up to its next call to it.  One  *)
(* process started as in main.py serves one handler at a time; two         *)
(* handlers overlap when a second worker or instance serves the same       *)
(* database.                                                               *)
(***************************************************************************)
\* mark_as_unsubscribed, on processed_emails.
MarkUnsubscribed(proc, u, id) ==
    { IF p.user_id = u /\ p.gmail_message_id = id
        THEN [p EXCEPT !.unsubscribed = TRUE] ELSE p : p \in proc }

\* The row the upsert of save_email_categories writes.
SaveUpsertRow(proc, row) == row

\* One iteration of the loop of the run up to the upsert: categorize_email
\* returns, and save_email_categories looks up the raw row of the message
\* and builds the processed row from it.
SaveLookup(w) ==
    /\ pc = "classifying" /\ i < Len(emails)
    /\ inflight[w] = NoHandler
    /\ LET email == emails[i + 1]
       IN  \E answer \in ModelResults(run_categories) :
           \E row \in GetEmailsByIds(run_user, {email.gmail_message_id}, raw_emails) :
              inflight' = [inflight EXCEPT ![w] =
                 Locals("save_email_categories", run_user,
                        {email.gmail_message_id}, <<>>, <<>>,
                        {ProcessedRow(run_user, row,
                            [category_id |-> answer.category_id,
                             summary |-> answer.summary,
                             gmail_message_id |-> email.gmail_message_id])},
                        0, "running")]
    /\ UNCHANGED <<tables, remote, runvars, conflicts, ret, response>>

\* The upsert of save_email_categories, and the end of the iteration.
SaveUpsert(w) ==
    /\ pc = "classifying" /\ i < Len(emails)
    /\ inflight[w].op = "save_email_categories"
    /\ \E row \in inflight[w].rows :
          processed_emails' =
             UpsertProcessed(processed_emails, SaveUpsertRow(processed_emails, row))
    /\ processed_count' = processed_count + 1
    /\ i' = i + 1
    /\ ok_keys' = ok_keys \cup {Key(emails[i + 1])}
    /\ inflight' = [inflight EXCEPT ![w] = NoHandler]
    /\ UNCHANGED <<gmail_accounts, raw_emails, categories, remote, conflicts,
                   response, ret, pc, run_user, provider_token, accounts,
                   all_emails, emails, run_categories, poll_log, failed_keys,
                   start_keys, poll_raised>>

\* delete_emails up to and with EmailDAO.delete_emails: the ids are looked
\* up, the remote calls are made, each of which may fail, and the raw rows
\* are deleted; the handler raises when none was.
DeleteEmailsRaw(w, u, ids, tok) ==
    /\ inflight[w] = NoHandler
    /\ LET known == {id \in ids : GetEmailsByIds(u, {id}, raw_emails) # {}}
       IN  \E found \in [known -> RowsOf(u, raw_emails)] :
             /\ \A id \in known : found[id].gmail_message_id = id
             /\ \E ok \in SUBSET ArchiveCalls(u, found, tok) :
                   labels' = Trash(labels, ok)
    /\ raw_emails' = DeleteRaw(raw_emails, u, ids)
    /\ inflight' = [inflight EXCEPT ![w] =
          IF raw_emails' = raw_emails THEN NoHandler
          ELSE Locals("delete_emails", u, ids, <<>>, <<>>, {}, 0, "running")]
    /\ UNCHANGED <<gmail_accounts, processed_emails, categories, mailbox,
                   runvars, conflicts, ret, response>>

\* delete_processed_emails, and the end of delete_emails.
DeleteEmailsProcessed(w) ==
    /\ inflight[w].op = "delete_emails"
    /\ processed_emails' =
          DeleteProcessed(processed_emails, inflight[w].user, inflight[w].ids)
    /\ inflight' = [inflight EXCEPT ![w] = NoHandler]
    /\ UNCHANGED <<gmail_accounts, raw_emails, categories, remote, runvars,
                   conflicts, ret, response>>

\* unsubscribe_email up to mark_as_unsubscribed: the message is looked up and
\* has a link.
UnsubscribeLookup(w, u, id) ==
    /\ inflight[w] = NoHandler
    /\ \E email \in GetEmailsByIds(u, {id}, raw_emails) :
          /\ email.unsubscribe_link # "null"
          /\ inflight' = [inflight EXCEPT ![w] =
                Locals("unsubscribe_email", u, {id}, <<>>, <<>>, {email}, 0, "running")]
    /\ UNCHANGED <<tables, remote, runvars, conflicts, ret, response>>

\* mark_as_unsubscribed, and the end of unsubscribe_email.
UnsubscribeMark(w) ==
    /\ inflight[w].op = "unsubscribe_email"
    /\ \E id \in inflight[w].ids :
          processed_emails' = MarkUnsubscribed(processed_emails, inflight[w].user, id)
    /\ inflight' = [inflight EXCEPT ![w] = NoHandler]
    /\ UNCHANGED <<gmail_accounts, raw_emails, categories, remote, runvars,
                   conflicts, ret, response>>

InitConcurrent ==
    /\ gmail_accounts = LinkedAtStart
    /\ raw_emails = {}
    /\ processed_emails = {}
    /\ categories = {NewCategory("uA", {})}
    /\ mailbox = DistinctIdMailboxes
    /\ labels = [k \in {<<m.google_sub, m.id>> : m \in mailbox} |-> "INBOX"]
    /\ IdleRun
    /\ conflicts = FALSE
    /\ ret = NoCall
    /\ response = NoResponse
    /\ inflight = NoneInFlight

NextConcurrent ==
    \/ StartEmailCollection("uA", "tok")
    \/ PollAllStart
    \/ PollGmail(FALSE)
    \/ PollAllReturn
    \/ SaveLookup("w1")
    \/ SaveUpsert("w1")
    \/ IterationFails /\ inflight["w1"] = NoHandler
    \/ RunDone
    \/ \E ids \in SUBSET MessageIds : DeleteEmailsRaw("w2", "uA", ids, "tok")
    \/ DeleteEmailsProcessed("w2")
    \/ \E id \in MessageIds : UnsubscribeLookup("w2", "uA", id)
    \/ UnsubscribeMark("w2")

SpecConcurrent == InitConcurrent /\ [][NextConcurrent]_vars

(***************************************************************************)
(* C25                                                                     *)
(***************************************************************************)
\* The rows delete_emails is about to delete: those of a delete_emails that
\* has deleted the raw rows and not yet the processed rows.
BeingDeleted(p) ==
    \E w \in Workers :
       /\ inflight[w].op = "delete_emails"
       /\ inflight[w].user = p.user_id
       /\ p.gmail_message_id \in inflight[w].ids

\* C25: each processed row has a raw row with the same user id and message
\* id, in every state of a run and a delete_emails of the same user that
\* overlap; a row that a delete_emails in progress is about to delete is
\* left aside.
C25_NoOrphanProcessedRow ==
    \A p \in processed_emails :
       \/ BeingDeleted(p)
       \/ \E r \in raw_emails :
             r.user_id = p.user_id /\ r.gmail_message_id = p.gmail_message_id

(***************************************************************************)
(* C26                                                                     *)
(***************************************************************************)
\* The step that ends a delete_emails of worker w.
DeleteEnds(w) ==
    /\ inflight[w].op = "delete_emails"
    /\ inflight[w].outcome = "running"
    /\ inflight'[w].outcome \in {"returned", "raised"}

\* delete_emails returns only if a raw row and a processed row of the user
\* matched the ids; when raw rows matched and no processed row did, the raw
\* rows are deleted and it raises.
C26_DeleteStep ==
    \A w \in Workers :
       DeleteEnds(w) =>
          LET l == inflight[w]
              raw_matched == GetEmailsByIds(l.user, l.ids, raw_emails)
              processed_matched == GetEmailsByIds(l.user, l.ids, processed_emails)
          IN  /\ inflight'[w].outcome = "returned" =>
                    raw_matched # {} /\ processed_matched # {}
              /\ (raw_matched # {} /\ processed_matched = {}) =>
                    /\ inflight'[w].outcome = "raised"
                    /\ raw_emails' = raw_emails \ raw_matched
                    /\ raw_emails' # raw_emails

\* C26: delete_emails reports success only if at least one raw row and one
\* processed row of the user matched the ids; when the ids match raw rows
\* and no processed row, the raw rows are removed and an error is reported.
C26_ErrorAfterRawRowsRemoved == [][C26_DeleteStep]_vars

\* A delete_emails of a stored message that was never classified: it has
\* raised, and the raw rows of its ids are gone.
C26_RaisedWithRowsRemovedWitness ==
    \E w \in Workers :
       LET l == inflight[w] IN
       /\ l.op = "delete_emails" /\ l.outcome = "raised"
       /\ l.rows # {}
       /\ GetEmailsByIds(l.user, l.ids, raw_emails) = {}
       /\ processed_emails = {}

(***************************************************************************)
(* create_category served by two workers on the same table: the select of  *)
(* the greatest category_id and the insert are two calls to the database.  *)
(* One process started as in main.py runs a create_category to its end     *)
(* before the next; two of them overlap when a second worker or instance   *)
(* serves the same database.                                               *)
(***************************************************************************)
\* The most rows of categories at which a further create_category begins.
MaxCreated == 3

\* The select: next_category_id is computed from the rows the user has now.
ReadMaxCategoryId(w, u) ==
    /\ inflight[w] = NoHandler
    /\ Cardinality(categories) < MaxCreated
    /\ inflight' = [inflight EXCEPT ![w] =
          Locals("create_category", u, {}, <<>>, <<>>, {},
                 NextCategoryId(u, categories), "running")]
    /\ UNCHANGED <<tables, remote, runvars, conflicts, ret, response>>

\* The insert of the row built from next_category_id; the database gives the
\* row its surrogate key.
InsertCategory(w) ==
    /\ inflight[w].op = "create_category"
    /\ categories' = categories \cup
          {[id |-> NextSerial(categories), user_id |-> inflight[w].user,
            category_id |-> inflight[w].n]}
    /\ inflight' = [inflight EXCEPT ![w] = NoHandler]
    /\ UNCHANGED <<gmail_accounts, raw_emails, processed_emails, remote,
                   runvars, conflicts, ret, response>>

InitCategories ==
    /\ gmail_accounts = LinkedAtStart
    /\ raw_emails = {}
    /\ processed_emails = {}
    /\ categories = {}
    /\ mailbox = SharedIdMailboxes
    /\ labels = [k \in {<<m.google_sub, m.id>> : m \in mailbox} |-> "INBOX"]
    /\ IdleRun
    /\ conflicts = FALSE
    /\ ret = NoCall
    /\ response = NoResponse
    /\ inflight = NoneInFlight

NextCategories ==
    \/ \E w \in Workers, u \in Users : ReadMaxCategoryId(w, u)
    \/ \E w \in Workers : InsertCategory(w)

SpecCategories == InitCategories /\ [][NextCategories]_vars

(***************************************************************************)
(* C27                                                                     *)
(***************************************************************************)
\* C27: no two category rows of one user have the same category_id, also
\* when two create_category calls of the user overlap between the read of
\* the greatest category_id and the insert.
C27_CategoryIdsUniquePerUser ==
    \A c, d \in categories :
       (c.user_id = d.user_id /\ c.category_id = d.category_id) => c = d

(***************************************************************************)
(* C28                                                                     *)
(***************************************************************************)
\* The keys the raw rows of user uA can have.
MessageKeys ==
    { <<"uA", m.id, m.threadId, m.google_sub>> :
        m \in SharedIdMailboxes \cup DistinctIdMailboxes }

\* Runs of user uA are triggered again and again.
RunsTriggeredRepeatedly == []<>(pc = "queued" /\ run_user = "uA")

\* No poll of an account fails, so that each run has a poll that succeeded
\* unless it skipped every account.
PollsSucceed ==
    [](/\ ~poll_raised
       /\ \A e \in Range(poll_log) : e.result # "failed"
       /\ (pc \in {"classifying", "done"} /\ run_user = "uA") =>
             \E e \in Range(poll_log) : e.result = "polled")

\* No iteration of the classification loop fails.
ClassifierSucceeds == [](failed_keys = {})

\* Each run of user uA that ends has loaded the categories of the user.
CategoriesLoaded == []((pc = "done" /\ run_user = "uA") => run_categories # {})

\* C28: when the user has a category, runs are triggered repeatedly, a poll
\* succeeds in each run and the classifier succeeds, every stored raw
\* message eventually has a processed row.
C28_EventuallyClassified ==
    (RunsTriggeredRepeatedly /\ PollsSucceed /\ CategoriesLoaded
        /\ ClassifierSucceeds) =>
       \A k \in MessageKeys :
          (k \in Keys(raw_emails)) ~> (k \in Keys(processed_emails))

(***************************************************************************)
(* C29                                                                     *)
(***************************************************************************)
\* A processed row whose unsubscribed flag is true keeps it in the next
\* state, unless the row is deleted.
C29_FlagKept ==
    \A p \in processed_emails :
       p.unsubscribed =>
          \A q \in processed_emails' : Key(q) = Key(p) => q.unsubscribed

\* C29: once unsubscribe_email has set the unsubscribed flag of a processed
\* row it stays true until the message is deleted, whatever runs, polls and
\* archives follow, also when a run was in progress when the user
\* unsubscribed.
C29_UnsubscribedIsMonotonic == [][C29_FlagKept]_vars

(***************************************************************************)
(* C30                                                                     *)
(***************************************************************************)
\* The message ids whose rows the last delete_emails removed, and its user.
LastDeleted ==
    IF ret.op = "delete_emails" THEN {p.gmail_message_id : p \in ret.rows} ELSE {}

\* C30: after delete_emails has removed the local rows of its ids, no later
\* run of the user stores a raw or a processed row for one of the ids
\* again, also when the remote trash call failed or the account was skipped.
C30_DeletionIsDurable ==
    \A r \in raw_emails \cup processed_emails :
       ~(r.user_id = ret.user /\ r.gmail_message_id \in LastDeleted)

====
